---- MODULE Spec2Model ----
(***************************************************************************)
(* A model of src/ping/src/dns.rs: the authoritative UDP DNS server that   *)
(* is configured from a Protobuf-encoded file.                             *)
(*                                                                         *)
(* Bytes are the integers 0..255, a byte string or a Rust String is the    *)
(* sequence of its (UTF-8) bytes, and offsets are 0-based as in the code   *)
(* (At, Slice).  A Result is a record with an ok flag and the error text.  *)
(***************************************************************************)
EXTENDS Integers, Sequences, FiniteSets, TLC

\* ------------------------------------------------------------------------
\* Byte strings
\* ------------------------------------------------------------------------

\* s[i] with the code's 0-based index.
At(s, i) == s[i + 1]

\* &s[from..to] with the code's 0-based, end-exclusive range.
Slice(s, from, to) == SubSeq(s, from + 1, to)

\* &s[from..]
SliceFrom(s, from) == SubSeq(s, from + 1, Len(s))

Min(a, b) == IF a <= b THEN a ELSE b

\* n copies of the byte b.
Rep(b, n) == [i \in 1..n |-> b]

RECURSIVE Flatten(_)
\* The concatenation of a sequence of byte strings.
Flatten(ss) == IF ss = <<>> THEN <<>> ELSE Head(ss) \o Flatten(Tail(ss))

\* ASCII codes the code names as character literals.
DOT == 46
COLON == 58
DIGIT_ZERO == 48

RECURSIVE BitAnd(_, _)
\* a & b on naturals.
BitAnd(a, b) ==
    IF a = 0 \/ b = 0 THEN 0
    ELSE (IF a % 2 = 1 /\ b % 2 = 1 THEN 1 ELSE 0) + 2 * BitAnd(a \div 2, b \div 2)

RECURSIVE BitOr(_, _)
\* a | b on naturals.
BitOr(a, b) ==
    IF a = 0 THEN b
    ELSE IF b = 0 THEN a
    ELSE (IF a % 2 = 1 \/ b % 2 = 1 THEN 1 ELSE 0) + 2 * BitOr(a \div 2, b \div 2)

\* ------------------------------------------------------------------------
\* Standard-library conversions the code relies on, modelled by what they do
\* ------------------------------------------------------------------------

\* The length of the well-formed UTF-8 character s starts with (no overlong
\* form, no surrogate, nothing above U+10FFFF), or 0 when it starts with none.
Utf8CharLen(s) ==
    LET n == Len(s)
        b == s[1]
        Cont(i) == i <= n /\ s[i] \in 128..191
        In(i, lo, hi) == i <= n /\ s[i] \in lo..hi
    IN  IF b < 128 THEN 1
        ELSE IF b \in 194..223 THEN (IF Cont(2) THEN 2 ELSE 0)
        ELSE IF b = 224 THEN (IF In(2, 160, 191) /\ Cont(3) THEN 3 ELSE 0)
        ELSE IF b \in (225..236) \cup {238, 239} THEN (IF Cont(2) /\ Cont(3) THEN 3 ELSE 0)
        ELSE IF b = 237 THEN (IF In(2, 128, 159) /\ Cont(3) THEN 3 ELSE 0)
        ELSE IF b = 240 THEN (IF In(2, 144, 191) /\ Cont(3) /\ Cont(4) THEN 4 ELSE 0)
        ELSE IF b \in 241..243 THEN (IF Cont(2) /\ Cont(3) /\ Cont(4) THEN 4 ELSE 0)
        ELSE IF b = 244 THEN (IF In(2, 128, 143) /\ Cont(3) /\ Cont(4) THEN 4 ELSE 0)
        ELSE 0

RECURSIVE IsUtf8(_)
\* std::str::from_utf8 / String::from_utf8 succeed: s is well-formed UTF-8.
IsUtf8(s) ==
    IF s = <<>> THEN TRUE
    ELSE IF Utf8CharLen(s) = 0 THEN FALSE
    ELSE IsUtf8(SubSeq(s, Utf8CharLen(s) + 1, Len(s)))

\* str::to_lowercase of a well-formed string.  It is the Unicode mapping, not
\* the ASCII one: A-Z map to a-z, and the Latin-1 capitals U+00C0..U+00DE
\* (bytes C3 80..C3 9E, except the multiplication sign C3 97) map to
\* U+00E0..U+00FE.  The only code point beyond Latin-1 among the inputs of
\* this model is U+03D2 (bytes CF 92), an uppercase letter that has no
\* lowercase mapping: it is left as it is, like every other byte.
ToLowercase(s) ==
    [i \in 1..Len(s) |->
        IF s[i] \in 65..90 THEN s[i] + 32
        ELSE IF i > 1 /\ s[i - 1] = 195 /\ s[i] \in (128..158) \ {151} THEN s[i] + 32
        ELSE s[i]]

\* s.strip_suffix('.').unwrap_or(s): at most one trailing '.' is removed.
StripSuffixDot(s) ==
    IF Len(s) > 0 /\ s[Len(s)] = DOT THEN SubSeq(s, 1, Len(s) - 1) ELSE s

RECURSIVE SplitDot(_)
\* name.split('.'): the pieces between the '.' bytes, empty pieces included;
\* always at least one piece.
SplitDot(s) ==
    IF \A i \in 1..Len(s) : s[i] # DOT THEN <<s>>
    ELSE LET k == CHOOSE i \in 1..Len(s) : s[i] = DOT /\ \A j \in 1..(i - 1) : s[j] # DOT
         IN  <<SubSeq(s, 1, k - 1)>> \o SplitDot(SubSeq(s, k + 1, Len(s)))

RECURSIVE JoinDot(_)
\* parts.join(".")
JoinDot(parts) ==
    IF parts = <<>> THEN <<>>
    ELSE IF Len(parts) = 1 THEN parts[1]
    ELSE parts[1] \o <<DOT>> \o JoinDot(Tail(parts))

RECURSIVE Decimal(_)
\* Display of an unsigned integer: its decimal digits, no padding.
Decimal(n) ==
    IF n < 10 THEN <<DIGIT_ZERO + n>>
    ELSE Decimal(n \div 10) \o <<DIGIT_ZERO + (n % 10)>>

\* Display of an Ipv4Addr: the four octets in decimal, joined by '.'.
Ipv4ToString(ip) ==
    Decimal(ip[1]) \o <<DOT>> \o Decimal(ip[2]) \o <<DOT>> \o
    Decimal(ip[3]) \o <<DOT>> \o Decimal(ip[4])

IsDigit(b) == b \in DIGIT_ZERO..(DIGIT_ZERO + 9)

RECURSIVE DecimalValue(_)
\* The value of a string of decimal digits.
DecimalValue(ds) ==
    IF ds = <<>> THEN 0
    ELSE 10 * DecimalValue(SubSeq(ds, 1, Len(ds) - 1)) + (ds[Len(ds)] - DIGIT_ZERO)

\* One octet of a dotted quad as str::parse::<Ipv4Addr> reads it: one to
\* three decimal digits, no leading zero before another digit, at most 255.
IsOctet(p) ==
    /\ Len(p) \in 1..3
    /\ \A i \in 1..Len(p) : IsDigit(p[i])
    /\ (Len(p) > 1 => p[1] # DIGIT_ZERO)
    /\ DecimalValue(p) <= 255

\* config_item.ip.parse::<Ipv4Addr>(): exactly four octets separated by '.'.
ParseIpv4(s) ==
    LET parts == SplitDot(s)
    IN  IF Len(parts) = 4 /\ \A i \in 1..4 : IsOctet(parts[i])
        THEN [ok |-> TRUE, ip |-> [i \in 1..4 |-> DecimalValue(parts[i])]]
        ELSE [ok |-> FALSE, ip |-> <<0, 0, 0, 0>>]

\* ------------------------------------------------------------------------
\* Protobuf wire format
\* ------------------------------------------------------------------------

WIRE_TYPE_VARINT == 0
WIRE_TYPE_64BIT == 1
WIRE_TYPE_LENGTH_DELIMITED == 2
WIRE_TYPE_32BIT == 5
\* the most bytes read_varint reads
MAX_VARINT_BYTES == 10
\* the largest integer of the model (2^31 - 1); a larger u64 or u32 that the
\* code only compares with small numbers is held at this value
INT_MAX == 2147483647

\* A u64 is the function from its bit positions 0..63 to 0 or 1.
U64Zero == [k \in 0..63 |-> 0]

\* value | ((group as u64) << shift) for a 7-bit group: the bits pushed
\* beyond bit 63 are lost.
OrShifted(value, group, shift) ==
    [k \in 0..63 |->
        IF k \in shift..(shift + 6) /\ (group \div (2 ^ (k - shift))) % 2 = 1
        THEN 1 ELSE value[k]]

RECURSIVE BitsValue(_, _, _)
\* The number made of the n bits of value from bit position from upwards
\* (n <= 31).
BitsValue(value, from, n) ==
    IF n = 0 THEN 0
    ELSE value[from] + 2 * BitsValue(value, from + 1, n - 1)

\* Do the bits from position from upwards hold only zeros?
NoBitsFrom(value, from) == \A k \in from..63 : value[k] = 0

\* (tag_val & 0x07) as u32
WireTypeOf(value) == BitsValue(value, 0, 3)

\* (tag_val >> 3) as u32: bits 3..34.
FieldNumberOf(value) ==
    IF value[34] = 1 THEN INT_MAX ELSE BitsValue(value, 3, 31)

\* value as usize (64 bits)
AsUsize(value) ==
    IF NoBitsFrom(value, 31) THEN BitsValue(value, 0, 31) ELSE INT_MAX

\* value as i32: the low 32 bits in two's complement.
AsI32(value) ==
    IF value[31] = 1 THEN (BitsValue(value, 0, 31) - INT_MAX) - 1
    ELSE BitsValue(value, 0, 31)

VarintErr(e) == [ok |-> FALSE, err |-> e, value |-> U64Zero, rest |-> <<>>]

RECURSIVE ReadVarintLoop(_, _, _)
\* The loop of read_varint over the byte index i.
ReadVarintLoop(buffer, i, value) ==
    IF i >= Len(buffer)
    THEN VarintErr("Buffer too short to complete varint or varint malformed")
    ELSE IF i >= MAX_VARINT_BYTES
    THEN VarintErr("Varint too long (max 10 bytes for u64)")
    ELSE LET byte == At(buffer, i)
             next == OrShifted(value, BitAnd(byte, 127), 7 * i)
         IN  IF BitAnd(byte, 128) = 0
             THEN [ok |-> TRUE, err |-> "", value |-> next, rest |-> SliceFrom(buffer, i + 1)]
             ELSE ReadVarintLoop(buffer, i + 1, next)

\* read_varint shortened by one byte: it gives up at i >= 9.
read_varint_nine_bytes(buffer) ==
    LET read == ReadVarintLoop(buffer, 0, U64Zero)
    IN  IF read.ok /\ Len(buffer) - Len(read.rest) >= MAX_VARINT_BYTES
        THEN VarintErr("Varint too long (max 10 bytes for u64)")
        ELSE read

\* read_varint: the value and the buffer advanced past it.
read_varint(buffer) == ReadVarintLoop(buffer, 0, U64Zero)

\* read_tag: the field number and the wire type.
read_tag(buffer) ==
    LET tag_val == read_varint(buffer)
    IN  IF ~tag_val.ok
        THEN [ok |-> FALSE, err |-> tag_val.err, field_number |-> 0, wire_type |-> 0,
              rest |-> <<>>]
        ELSE IF FieldNumberOf(tag_val.value) = 0
        THEN [ok |-> FALSE, err |-> "Invalid field number 0 in tag", field_number |-> 0,
              wire_type |-> 0, rest |-> <<>>]
        ELSE [ok |-> TRUE, err |-> "", field_number |-> FieldNumberOf(tag_val.value),
              wire_type |-> WireTypeOf(tag_val.value), rest |-> tag_val.rest]

\* read_length_delimited: the slice of the given length and the buffer
\* advanced past it.
read_length_delimited(buffer) ==
    LET len == read_varint(buffer)
    IN  IF ~len.ok THEN [ok |-> FALSE, err |-> len.err, data |-> <<>>, rest |-> <<>>]
        ELSE IF Len(len.rest) < AsUsize(len.value)
        THEN [ok |-> FALSE, err |-> "Buffer too short for length-delimited data",
              data |-> <<>>, rest |-> <<>>]
        ELSE [ok |-> TRUE, err |-> "",
              data |-> Slice(len.rest, 0, AsUsize(len.value)),
              rest |-> SliceFrom(len.rest, AsUsize(len.value))]

\* skip_field that takes a group wire type for a field without content.
skip_field_groups_ignored(buffer, wire_type) ==
    IF wire_type = WIRE_TYPE_VARINT
    THEN LET v == read_varint(buffer)
         IN  IF v.ok THEN [ok |-> TRUE, err |-> "", rest |-> v.rest]
             ELSE [ok |-> FALSE, err |-> v.err, rest |-> <<>>]
    ELSE IF wire_type = WIRE_TYPE_LENGTH_DELIMITED
    THEN LET len == read_varint(buffer)
         IN  IF ~len.ok \/ Len(len.rest) < AsUsize(len.value)
             THEN [ok |-> FALSE, err |-> "Buffer too short to skip length-delimited field",
                   rest |-> <<>>]
             ELSE [ok |-> TRUE, err |-> "", rest |-> SliceFrom(len.rest, AsUsize(len.value))]
    ELSE IF wire_type \in {3, 4} THEN [ok |-> TRUE, err |-> "", rest |-> buffer]
    ELSE [ok |-> FALSE, err |-> "Unknown wire type encountered", rest |-> <<>>]

SkipErr(e) == [ok |-> FALSE, err |-> e, rest |-> <<>>]

\* skip_field: the buffer advanced past a field of the given wire type.
skip_field(buffer, wire_type) ==
    IF wire_type = WIRE_TYPE_VARINT
    THEN LET v == read_varint(buffer)
         IN  IF v.ok THEN [ok |-> TRUE, err |-> "", rest |-> v.rest] ELSE SkipErr(v.err)
    ELSE IF wire_type = WIRE_TYPE_64BIT
    THEN IF Len(buffer) < 8 THEN SkipErr("Buffer too short to skip 64-bit field")
         ELSE [ok |-> TRUE, err |-> "", rest |-> SliceFrom(buffer, 8)]
    ELSE IF wire_type = WIRE_TYPE_LENGTH_DELIMITED
    THEN LET len == read_varint(buffer)
         IN  IF ~len.ok THEN SkipErr(len.err)
             ELSE IF Len(len.rest) < AsUsize(len.value)
             THEN SkipErr("Buffer too short to skip length-delimited field")
             ELSE [ok |-> TRUE, err |-> "", rest |-> SliceFrom(len.rest, AsUsize(len.value))]
    ELSE IF wire_type = WIRE_TYPE_32BIT
    THEN IF Len(buffer) < 4 THEN SkipErr("Buffer too short to skip 32-bit field")
         ELSE [ok |-> TRUE, err |-> "", rest |-> SliceFrom(buffer, 4)]
    ELSE IF wire_type \in {3, 4}
    THEN SkipErr("Deprecated wire types (start/end group) not supported for skipping.")
    ELSE SkipErr("Unknown wire type encountered")

\* ------------------------------------------------------------------------
\* Schema walker
\* ------------------------------------------------------------------------

None == [some |-> FALSE, val |-> <<>>]
Some(v) == [some |-> TRUE, val |-> v]

WalkErr(e) == [ok |-> FALSE, err |-> e, results |-> <<>>]
WalkOk(results) == [ok |-> TRUE, err |-> "", results |-> results]

\* What one turn of a message loop leaves: the error that ends the parse, or
\* the buffer advanced past the field and the results so far.
FieldErr(e) == [ok |-> FALSE, err |-> e, rest |-> <<>>, results |-> <<>>]
FieldOk(rest, results) == [ok |-> TRUE, err |-> "", rest |-> rest, results |-> results]

\* The outcome of a field skipped with skip_field(..).map_err(..)?
Skipped(skipped, results, e) ==
    IF ~skipped.ok THEN FieldErr(e) ELSE FieldOk(skipped.rest, results)

\* The outcome of a field parsed as a nested message with
\* parse_..(..).map_err(..)?
Nested(nested, rest, e) ==
    IF ~nested.ok THEN FieldErr(e) ELSE FieldOk(rest, nested.results)

UriFieldErr(e) ==
    [ok |-> FALSE, err |-> e, rest |-> <<>>, ip_opt |-> None, port_opt |-> None]

\* Uri field 1, ip: a length-delimited UTF-8 string.
UriIp(tag, ip_bytes, port_opt) ==
    IF tag.wire_type # WIRE_TYPE_LENGTH_DELIMITED THEN UriFieldErr("Uri.ip: Expected wire type")
    ELSE IF ~ip_bytes.ok THEN UriFieldErr(ip_bytes.err)
    ELSE IF ~IsUtf8(ip_bytes.data) THEN UriFieldErr("Uri.ip: Invalid UTF-8 string")
    ELSE [ok |-> TRUE, err |-> "", rest |-> ip_bytes.rest, ip_opt |-> Some(ip_bytes.data),
          port_opt |-> port_opt]

\* UriPort that forgets the ip seen before it.
UriPortForgetsIp(tag, port_val, ip_opt) ==
    IF tag.wire_type # WIRE_TYPE_VARINT THEN UriFieldErr("Uri.port: Expected wire type")
    ELSE IF ~port_val.ok THEN UriFieldErr(port_val.err)
    ELSE [ok |-> TRUE, err |-> "", rest |-> port_val.rest, ip_opt |-> None,
          port_opt |-> Some(AsI32(port_val.value))]

\* Uri field 2, port: a varint cast to i32.
UriPort(tag, port_val, ip_opt) ==
    IF tag.wire_type # WIRE_TYPE_VARINT THEN UriFieldErr("Uri.port: Expected wire type")
    ELSE IF ~port_val.ok THEN UriFieldErr(port_val.err)
    ELSE [ok |-> TRUE, err |-> "", rest |-> port_val.rest, ip_opt |-> ip_opt,
          port_opt |-> Some(AsI32(port_val.value))]

\* Any other Uri field is skipped.
UriOther(skipped, ip_opt, port_opt) ==
    IF ~skipped.ok THEN UriFieldErr("Uri: Error skipping field")
    ELSE [ok |-> TRUE, err |-> "", rest |-> skipped.rest, ip_opt |-> ip_opt,
          port_opt |-> port_opt]

\* One turn of the loop of parse_uri_message_proto, after read_tag.
UriField(tag, ip_opt, port_opt) ==
    IF ~tag.ok THEN UriFieldErr(tag.err)
    ELSE IF tag.field_number = 1 THEN UriIp(tag, read_length_delimited(tag.rest), port_opt)
    ELSE IF tag.field_number = 2 THEN UriPort(tag, read_varint(tag.rest), ip_opt)
    ELSE UriOther(skip_field(tag.rest, tag.wire_type), ip_opt, port_opt)

RECURSIVE UriLoop(_, _, _, _, _)
\* The loop goes on after a field, unless the field was an error.
UriAfterField(field, tags_for_this_uri, results) ==
    IF ~field.ok THEN WalkErr(field.err)
    ELSE UriLoop(field.rest, field.ip_opt, field.port_opt, tags_for_this_uri, results)

\* The loop of parse_uri_message_proto and the push that follows it: one
\* ExtractedInfo when both ip and port were seen.
UriLoop(data, ip_opt, port_opt, tags_for_this_uri, results) ==
    IF data # <<>>
    THEN UriAfterField(UriField(read_tag(data), ip_opt, port_opt), tags_for_this_uri, results)
    ELSE IF ip_opt.some /\ port_opt.some
    THEN WalkOk(Append(results, [tags |-> tags_for_this_uri, ip |-> ip_opt.val,
                                 port |-> port_opt.val]))
    ELSE WalkOk(results)

\* parse_uri_message_proto
parse_uri_message_proto(data, tags_for_this_uri, results) ==
    UriLoop(data, None, None, tags_for_this_uri, results)

\* Uri_Slot field 1, internal_port: a varint, skipped.
UriSlotInternalPort(tag, results) ==
    IF tag.wire_type # WIRE_TYPE_VARINT
    THEN FieldErr("Uri_Slot.internal_port: Expected wire type")
    ELSE Skipped(skip_field(tag.rest, tag.wire_type), results,
                 "Uri_Slot: Error skipping internal_port")

\* Uri_Slot field 2, uri: a nested Uri message.
UriSlotUri(tag, uri_message_bytes, tags_for_slot, results) ==
    IF tag.wire_type # WIRE_TYPE_LENGTH_DELIMITED THEN FieldErr("Uri_Slot.uri: Expected wire type")
    ELSE IF ~uri_message_bytes.ok THEN FieldErr(uri_message_bytes.err)
    ELSE Nested(parse_uri_message_proto(uri_message_bytes.data, tags_for_slot, results),
                uri_message_bytes.rest, "Uri_Slot: Error parsing nested Uri message")

\* One turn of the loop of parse_uri_slot_message_proto, after read_tag.
UriSlotField(tag, tags_for_slot, results) ==
    IF ~tag.ok THEN FieldErr(tag.err)
    ELSE IF tag.field_number = 1 THEN UriSlotInternalPort(tag, results)
    ELSE IF tag.field_number = 2
    THEN UriSlotUri(tag, read_length_delimited(tag.rest), tags_for_slot, results)
    ELSE Skipped(skip_field(tag.rest, tag.wire_type), results, "Uri_Slot: Error skipping field")

RECURSIVE parse_uri_slot_message_proto(_, _, _)
UriSlotAfterField(field, tags_for_slot) ==
    IF ~field.ok THEN WalkErr(field.err)
    ELSE parse_uri_slot_message_proto(field.rest, tags_for_slot, field.results)

\* parse_uri_slot_message_proto: its loop, one field a turn.
parse_uri_slot_message_proto(data, tags_for_slot, results) ==
    IF data = <<>> THEN WalkOk(results)
    ELSE UriSlotAfterField(UriSlotField(read_tag(data), tags_for_slot, results), tags_for_slot)

\* Instance field 2, uri_slot: a nested Uri_Slot message.
InstanceUriSlot(tag, uri_slot_message_bytes, tags_for_instance, results) ==
    IF tag.wire_type # WIRE_TYPE_LENGTH_DELIMITED
    THEN FieldErr("Instance.uri_slot: Expected wire type")
    ELSE IF ~uri_slot_message_bytes.ok THEN FieldErr(uri_slot_message_bytes.err)
    ELSE Nested(parse_uri_slot_message_proto(uri_slot_message_bytes.data, tags_for_instance,
                                             results),
                uri_slot_message_bytes.rest, "Instance: Error parsing nested Uri_Slot message")

\* One turn of the loop of parse_instance_message_proto, after read_tag:
\* field 1 (api) is skipped whatever its wire type.
InstanceField(tag, tags_for_instance, results) ==
    IF ~tag.ok THEN FieldErr(tag.err)
    ELSE IF tag.field_number = 2
    THEN InstanceUriSlot(tag, read_length_delimited(tag.rest), tags_for_instance, results)
    ELSE Skipped(skip_field(tag.rest, tag.wire_type), results,
                 IF tag.field_number = 1 THEN "Instance: Error skipping api field"
                 ELSE "Instance: Error skipping field")

RECURSIVE parse_instance_message_proto(_, _, _)
InstanceAfterField(field, tags_for_instance) ==
    IF ~field.ok THEN WalkErr(field.err)
    ELSE parse_instance_message_proto(field.rest, tags_for_instance, field.results)

\* parse_instance_message_proto: its loop, one field a turn.
parse_instance_message_proto(data, tags_for_instance, results) ==
    IF data = <<>> THEN WalkOk(results)
    ELSE InstanceAfterField(InstanceField(read_tag(data), tags_for_instance, results),
                            tags_for_instance)

ResolutionFieldErr(e) ==
    [ok |-> FALSE, err |-> e, rest |-> <<>>, tags |-> <<>>, network_client |-> None]

\* ResolutionTag that keeps the newest tag only.
ResolutionTagResets(tag, tag_bytes, current_tags_for_resolution, network_client_opt) ==
    IF tag.wire_type # WIRE_TYPE_LENGTH_DELIMITED
    THEN ResolutionFieldErr("NetworkResolution.tags: Expected wire type")
    ELSE IF ~tag_bytes.ok THEN ResolutionFieldErr(tag_bytes.err)
    ELSE IF ~IsUtf8(tag_bytes.data)
    THEN ResolutionFieldErr("NetworkResolution.tags: Invalid UTF-8 string for tag")
    ELSE [ok |-> TRUE, err |-> "", rest |-> tag_bytes.rest,
          tags |-> <<tag_bytes.data>>,
          network_client |-> network_client_opt]

\* NetworkResolution field 1, tags: a UTF-8 string appended to the tags.
ResolutionTag(tag, tag_bytes, current_tags_for_resolution, network_client_opt) ==
    IF tag.wire_type # WIRE_TYPE_LENGTH_DELIMITED
    THEN ResolutionFieldErr("NetworkResolution.tags: Expected wire type")
    ELSE IF ~tag_bytes.ok THEN ResolutionFieldErr(tag_bytes.err)
    ELSE IF ~IsUtf8(tag_bytes.data)
    THEN ResolutionFieldErr("NetworkResolution.tags: Invalid UTF-8 string for tag")
    ELSE [ok |-> TRUE, err |-> "", rest |-> tag_bytes.rest,
          tags |-> Append(current_tags_for_resolution, tag_bytes.data),
          network_client |-> network_client_opt]

\* NetworkResolution field 2, network_client: the body is kept, the last one
\* wins.
ResolutionClient(tag, client_bytes, current_tags_for_resolution) ==
    IF tag.wire_type # WIRE_TYPE_LENGTH_DELIMITED
    THEN ResolutionFieldErr("NetworkResolution.network_client: Expected wire type")
    ELSE IF ~client_bytes.ok THEN ResolutionFieldErr(client_bytes.err)
    ELSE [ok |-> TRUE, err |-> "", rest |-> client_bytes.rest,
          tags |-> current_tags_for_resolution, network_client |-> Some(client_bytes.data)]

\* Any other NetworkResolution field is skipped.
ResolutionOther(skipped, current_tags_for_resolution, network_client_opt) ==
    IF ~skipped.ok THEN ResolutionFieldErr("NetworkResolution: Error skipping field")
    ELSE [ok |-> TRUE, err |-> "", rest |-> skipped.rest,
          tags |-> current_tags_for_resolution, network_client |-> network_client_opt]

\* One turn of the loop of parse_network_resolution_message_proto, after
\* read_tag.
ResolutionField(tag, current_tags_for_resolution, network_client_opt) ==
    IF ~tag.ok THEN ResolutionFieldErr(tag.err)
    ELSE IF tag.field_number = 1
    THEN ResolutionTag(tag, read_length_delimited(tag.rest), current_tags_for_resolution,
                       network_client_opt)
    ELSE IF tag.field_number = 2
    THEN ResolutionClient(tag, read_length_delimited(tag.rest), current_tags_for_resolution)
    ELSE ResolutionOther(skip_field(tag.rest, tag.wire_type), current_tags_for_resolution,
                         network_client_opt)

\* parse_instance_message_proto(..).map_err(..)? at the end of
\* parse_network_resolution_message_proto
ResolutionInstance(instance) ==
    IF ~instance.ok THEN WalkErr("NetworkResolution: Error parsing nested Instance message")
    ELSE instance

RECURSIVE NetworkResolutionLoop(_, _, _, _)
ResolutionAfterField(field, results) ==
    IF ~field.ok THEN WalkErr(field.err)
    ELSE NetworkResolutionLoop(field.rest, field.tags, field.network_client, results)

\* The loop of parse_network_resolution_message_proto and, after it, the
\* descent into the stored network_client body when there is at least one
\* tag.
NetworkResolutionLoop(data, current_tags_for_resolution, network_client_opt, results) ==
    IF data # <<>>
    THEN ResolutionAfterField(
             ResolutionField(read_tag(data), current_tags_for_resolution, network_client_opt),
             results)
    ELSE IF network_client_opt.some /\ current_tags_for_resolution # <<>>
    THEN ResolutionInstance(parse_instance_message_proto(
             network_client_opt.val, current_tags_for_resolution, results))
    ELSE WalkOk(results)

\* parse_network_resolution_message_proto
parse_network_resolution_message_proto(data, results) ==
    NetworkResolutionLoop(data, <<>>, None, results)

\* ConfigurationFile field 3, network_resolution: a nested message.
ConfigurationResolution(tag, network_resolution_bytes, results) ==
    IF tag.wire_type # WIRE_TYPE_LENGTH_DELIMITED
    THEN FieldErr("ConfigurationFile.network_resolution: Expected wire type")
    ELSE IF ~network_resolution_bytes.ok THEN FieldErr(network_resolution_bytes.err)
    ELSE Nested(parse_network_resolution_message_proto(network_resolution_bytes.data, results),
                network_resolution_bytes.rest,
                "ConfigurationFile: Error parsing nested NetworkResolution message")

\* One turn of the loop of parse_configuration_file_proto, after read_tag:
\* every field but 3 is skipped.
ConfigurationField(tag, results) ==
    IF ~tag.ok THEN FieldErr(tag.err)
    ELSE IF tag.field_number = 3
    THEN ConfigurationResolution(tag, read_length_delimited(tag.rest), results)
    ELSE Skipped(skip_field(tag.rest, tag.wire_type), results,
                 "ConfigurationFile: Error skipping field")

RECURSIVE ConfigurationFileLoop(_, _)
ConfigurationAfterField(field) ==
    IF ~field.ok THEN WalkErr(field.err)
    ELSE ConfigurationFileLoop(field.rest, field.results)

\* The loop of parse_configuration_file_proto.
ConfigurationFileLoop(data, results) ==
    IF data = <<>> THEN WalkOk(results)
    ELSE ConfigurationAfterField(ConfigurationField(read_tag(data), results))

\* parse_configuration_file_proto: the extracted list, or the parse error.
parse_configuration_file_proto(data) == ConfigurationFileLoop(data, <<>>)

\* ------------------------------------------------------------------------
\* DNS constants
\* ------------------------------------------------------------------------

QTYPE_A == 1
QTYPE_TXT == 16
QCLASS_IN == 1
FLAG_QR_RESPONSE == 32768
FLAG_AA == 1024
RCODE_NO_ERROR == 0
RCODE_SERVER_FAILURE == 2
RCODE_NXDOMAIN == 3
\* ttl_value in build_dns_response_packet
TTL_VALUE == 60
\* the longest label the name codec accepts
MAX_LABEL_LEN == 63
\* the longest character-string of a TXT record
MAX_TXT_LEN == 255
\* the length of the DNS header
HEADER_LEN == 12

\* val.to_be_bytes() of a u16
u16_to_bytes_be(val) == <<(val \div 256) % 256, val % 256>>

\* val.to_be_bytes() of a u32
u32_to_bytes_be(val) ==
    <<(val \div 16777216) % 256, (val \div 65536) % 256, (val \div 256) % 256, val % 256>>

\* bytes_to_u16_be reading the two bytes in little-endian order.
bytes_to_u16_le(bytes) ==
    IF Len(bytes) < 2 THEN [ok |-> FALSE, val |-> 0]
    ELSE [ok |-> TRUE, val |-> bytes[2] * 256 + bytes[1]]

\* u16::from_be_bytes of the first two bytes; an error on a shorter slice.
bytes_to_u16_be(bytes) ==
    IF Len(bytes) < 2 THEN [ok |-> FALSE, val |-> 0]
    ELSE [ok |-> TRUE, val |-> bytes[1] * 256 + bytes[2]]

\* ------------------------------------------------------------------------
\* DNS name codec
\* ------------------------------------------------------------------------

QnameErr(e) == [ok |-> FALSE, err |-> e, name |-> <<>>, len |-> 0]

\* LabelTooLong that lets every length through.
LabelTooLongNever(label_len_byte) == FALSE

\* The length check of a label: label_len > 63.
LabelTooLong(label_len_byte) == label_len_byte > MAX_LABEL_LEN

RECURSIVE ParseQnameLoop(_, _, _, _)
\* The loop of parse_qname_from_dns_packet and the result built after it.
ParseQnameLoop(packet_data, current_pos_in_packet, qname_parts, total_read) ==
    IF current_pos_in_packet >= Len(packet_data)
    THEN QnameErr("Buffer too short while reading QNAME label length")
    ELSE LET label_len_byte == At(packet_data, current_pos_in_packet)
             label_start == current_pos_in_packet + 1
             label_bytes == Slice(packet_data, label_start, label_start + label_len_byte)
         IN  IF BitAnd(label_len_byte, 192) = 192
             THEN QnameErr("DNS name compression pointers in QNAME are not supported")
             ELSE IF label_len_byte = 0
             THEN [ok |-> TRUE, err |-> "",
                   name |-> IF qname_parts = <<>> /\ total_read + 1 = 1
                            THEN <<DOT>>
                            ELSE JoinDot(qname_parts),
                   len |-> total_read + 1]
             ELSE IF LabelTooLong(label_len_byte)
             THEN QnameErr("QNAME label too long")
             ELSE IF label_start + label_len_byte > Len(packet_data)
             THEN QnameErr("Buffer too short while reading QNAME label data")
             ELSE IF ~IsUtf8(label_bytes)
             THEN QnameErr("QNAME label contains invalid UTF-8 characters")
             ELSE ParseQnameLoop(packet_data, label_start + label_len_byte,
                                 Append(qname_parts, label_bytes),
                                 total_read + 1 + label_len_byte)

\* parse_qname_from_dns_packet: the decoded dotted name and the number of
\* bytes the QNAME takes in the packet.
parse_qname_from_dns_packet(packet_data, start_offset) ==
    ParseQnameLoop(packet_data, start_offset, <<>>, 0)

RECURSIVE FormatLabels(_, _)
\* The loop of format_name_for_dns_packet over the pieces of name.split('.'):
\* empty pieces are skipped, a piece longer than 63 bytes panics.
FormatLabels(labels, encoded_name) ==
    IF labels = <<>> THEN [panic |-> FALSE, bytes |-> encoded_name]
    ELSE IF Len(Head(labels)) > MAX_LABEL_LEN THEN [panic |-> TRUE, bytes |-> <<>>]
    ELSE FormatLabels(Tail(labels),
                      IF Head(labels) = <<>> THEN encoded_name
                      ELSE encoded_name \o <<Len(Head(labels))>> \o Head(labels))

\* The null byte format_name_for_dns_packet ends a name with.
Terminated(encoded) ==
    IF encoded.panic THEN encoded ELSE [panic |-> FALSE, bytes |-> encoded.bytes \o <<0>>]

\* format_name_for_dns_packet: the label sequence of a dotted name.
format_name_for_dns_packet(name) ==
    IF name = <<DOT>> \/ name = <<>> THEN [panic |-> FALSE, bytes |-> <<0>>]
    ELSE Terminated(FormatLabels(SplitDot(name), <<>>))

\* ------------------------------------------------------------------------
\* DNS packet parser
\* ------------------------------------------------------------------------

NoQuestion == [qname |-> <<>>, qtype |-> 0, qclass |-> 0]

QueryErr(e) == [ok |-> FALSE, err |-> e, transaction_id |-> 0, question |-> NoQuestion]

\* parse_dns_query_packet: Ok(DnsQueryInfo) or the error of the first check
\* that fails.
parse_dns_query_packet(packet_bytes) ==
    IF Len(packet_bytes) < HEADER_LEN
    THEN QueryErr("DNS packet too short (less than 12 bytes for header)")
    ELSE
    LET transaction_id == bytes_to_u16_be(Slice(packet_bytes, 0, 2)).val
        flags == bytes_to_u16_be(Slice(packet_bytes, 2, 4)).val
        qd_count == bytes_to_u16_be(Slice(packet_bytes, 4, 6)).val
        opcode == BitAnd(flags \div 2048, 15)
        parsed_name == parse_qname_from_dns_packet(packet_bytes, HEADER_LEN)
        after_qname == HEADER_LEN + parsed_name.len
        qtype == bytes_to_u16_be(Slice(packet_bytes, after_qname, after_qname + 2)).val
        qclass == bytes_to_u16_be(Slice(packet_bytes, after_qname + 2, after_qname + 4)).val
    IN  IF BitAnd(flags, FLAG_QR_RESPONSE) # 0
        THEN QueryErr("Received packet is not a DNS query (QR bit is set to 1)")
        ELSE IF opcode # 0
        THEN QueryErr("Unsupported DNS Opcode")
        ELSE IF qd_count = 0
        THEN QueryErr("DNS query contains no questions (QDCOUNT is 0)")
        ELSE IF qd_count > 1
        THEN QueryErr("Multiple questions in a single DNS query are not supported.")
        ELSE IF ~parsed_name.ok
        THEN QueryErr("Failed to parse QNAME from DNS query")
        ELSE IF Len(packet_bytes) < after_qname + 4
        THEN QueryErr("DNS packet too short after QNAME (missing QTYPE/QCLASS)")
        ELSE IF qclass # QCLASS_IN
        THEN QueryErr("Unsupported DNS query class")
        ELSE [ok |-> TRUE, err |-> "",
              transaction_id |-> transaction_id,
              question |-> [qname |-> parsed_name.name, qtype |-> qtype, qclass |-> qclass]]

\* ------------------------------------------------------------------------
\* DNS response builder
\* ------------------------------------------------------------------------

\* TxtRecordDataString without the port.
TxtRecordDataStringIpOnly(ip_address, port_number) == Ipv4ToString(ip_address)

\* format!("{}:{}", ip_address, port_number)
TxtRecordDataString(ip_address, port_number) ==
    Ipv4ToString(ip_address) \o <<COLON>> \o Decimal(port_number)

\* LookupQnameKey without to_lowercase.
LookupQnameKeyCaseSensitive(qname) == StripSuffixDot(qname)

\* The lookup key of build_dns_response_packet: the queried name without one
\* trailing '.', in lowercase.
LookupQnameKey(qname) == ToLowercase(StripSuffixDot(qname))

\* AnswerFor with the class of the answer taken from the question's type.
AnswerForWrongClass(question, entry, qname_bytes_for_rr) ==
    LET txt_record_data_string == Ipv4ToString(entry.ip) \o <<COLON>> \o Decimal(entry.port)
    IN  IF question.qtype = QTYPE_A
        THEN [answer_record_count |-> 1, response_code |-> RCODE_NO_ERROR,
              payload |-> qname_bytes_for_rr \o u16_to_bytes_be(QTYPE_A)
                          \o u16_to_bytes_be(QTYPE_A) \o u32_to_bytes_be(TTL_VALUE)
                          \o u16_to_bytes_be(4) \o entry.ip]
        ELSE IF question.qtype = QTYPE_TXT
        THEN [answer_record_count |-> 1, response_code |-> RCODE_NO_ERROR,
              payload |-> qname_bytes_for_rr \o u16_to_bytes_be(QTYPE_TXT)
                          \o u16_to_bytes_be(QTYPE_TXT) \o u32_to_bytes_be(TTL_VALUE)
                          \o u16_to_bytes_be(1 + Len(txt_record_data_string))
                          \o <<Len(txt_record_data_string)>>
                          \o txt_record_data_string]
        ELSE [answer_record_count |-> 0, response_code |-> RCODE_NO_ERROR,
              payload |-> <<>>]

\* The answer of build_dns_response_packet for a name found in the map:
\* the record count, the response code and the bytes of the answer section.
AnswerFor(question, entry, qname_bytes_for_rr) ==
    LET txt_record_data_string == TxtRecordDataString(entry.ip, entry.port)
        rdata_length_for_txt == 1 + Len(txt_record_data_string)
    IN  IF question.qtype = QTYPE_A
        THEN [answer_record_count |-> 1, response_code |-> RCODE_NO_ERROR,
              payload |-> qname_bytes_for_rr \o u16_to_bytes_be(QTYPE_A)
                          \o u16_to_bytes_be(QCLASS_IN) \o u32_to_bytes_be(TTL_VALUE)
                          \o u16_to_bytes_be(4) \o entry.ip]
        ELSE IF question.qtype = QTYPE_TXT
        THEN IF Len(txt_record_data_string) > MAX_TXT_LEN
             THEN [answer_record_count |-> 0, response_code |-> RCODE_SERVER_FAILURE,
                   payload |-> <<>>]
             ELSE [answer_record_count |-> 1, response_code |-> RCODE_NO_ERROR,
                   payload |-> qname_bytes_for_rr \o u16_to_bytes_be(QTYPE_TXT)
                               \o u16_to_bytes_be(QCLASS_IN) \o u32_to_bytes_be(TTL_VALUE)
                               \o u16_to_bytes_be(rdata_length_for_txt % 65536)
                               \o <<Len(txt_record_data_string) % 256>>
                               \o txt_record_data_string]
        ELSE [answer_record_count |-> 0, response_code |-> RCODE_NO_ERROR,
              payload |-> <<>>]

\* ResponseHeader with the flags of a response that lacks the AA bit.
ResponseHeaderWithoutAA(transaction_id, response_code, answer_record_count) ==
    u16_to_bytes_be(transaction_id)
    \o u16_to_bytes_be(BitOr(FLAG_QR_RESPONSE, BitAnd(response_code, 15)))
    \o u16_to_bytes_be(1)
    \o u16_to_bytes_be(answer_record_count)
    \o u16_to_bytes_be(0)
    \o u16_to_bytes_be(0)

\* The 12-byte header of a response.
ResponseHeader(transaction_id, response_code, answer_record_count) ==
    u16_to_bytes_be(transaction_id)
    \o u16_to_bytes_be(BitOr(BitOr(FLAG_QR_RESPONSE, FLAG_AA), BitAnd(response_code, 15)))
    \o u16_to_bytes_be(1)
    \o u16_to_bytes_be(answer_record_count)
    \o u16_to_bytes_be(0)
    \o u16_to_bytes_be(0)

\* build_dns_response_packet: the response bytes, or a panic of the name
\* encoder.
build_dns_response_packet(query_info, dns_data_map) ==
    LET question == query_info.question
        lookup_qname_key == LookupQnameKey(question.qname)
        found == lookup_qname_key \in DOMAIN dns_data_map
        encoded_name == format_name_for_dns_packet(question.qname)
        answer == IF found
                  THEN AnswerFor(question, dns_data_map[lookup_qname_key], encoded_name.bytes)
                  ELSE [answer_record_count |-> 0, response_code |-> RCODE_NXDOMAIN,
                        payload |-> <<>>]
    IN  IF encoded_name.panic THEN [panic |-> TRUE, bytes |-> <<>>]
        ELSE [panic |-> FALSE,
              bytes |-> ResponseHeader(query_info.transaction_id, answer.response_code,
                                       answer.answer_record_count)
                        \o encoded_name.bytes
                        \o u16_to_bytes_be(question.qtype)
                        \o u16_to_bytes_be(question.qclass)
                        \o answer.payload]

\* ------------------------------------------------------------------------
\* Record table builder (the first part of start_dns_server)
\* ------------------------------------------------------------------------

\* PortAsU16 that keeps the i32 as it is.
PortAsU16Wide(port) == port

\* PortAsU16 that saturates instead of wrapping.
PortAsU16Saturating(port) ==
    IF port > 65535 THEN 65535 ELSE IF port < 0 THEN 0 ELSE port

\* config_item.port as u16: the low 16 bits of the i32.
PortAsU16(port) == port % 65536

\* NormalizedDnsKey without to_lowercase.
NormalizedDnsKeyCaseSensitive(tag_string_from_config) ==
    StripSuffixDot(tag_string_from_config)

\* NormalizedDnsKey that keeps the trailing '.'.
NormalizedDnsKeyKeepDot(tag_string_from_config) == ToLowercase(tag_string_from_config)

\* The normalised key of a configured tag.
NormalizedDnsKey(tag_string_from_config) ==
    ToLowercase(StripSuffixDot(tag_string_from_config))

\* MapInsert that keeps the value a key already has.
MapInsertFirstWins(map, key, value) ==
    [k \in (DOMAIN map) \cup {key} |-> IF k \in DOMAIN map THEN map[k] ELSE value]

\* dns_records_map.insert(key, value): a later value replaces an earlier one.
MapInsert(map, key, value) ==
    [k \in (DOMAIN map) \cup {key} |-> IF k = key THEN value ELSE map[k]]

RECURSIVE InsertTags(_, _, _)
\* The inner loop over the tags of one configuration item.
InsertTags(map, tags, value) ==
    IF tags = <<>> THEN map
    ELSE InsertTags(MapInsert(map, NormalizedDnsKey(Head(tags)), value), Tail(tags), value)

\* InsertItem that gives up the whole table at an ip that does not parse.
InsertItemAborting(map, config_item, ip_addr_obj) ==
    IF ~ip_addr_obj.ok THEN [k \in {} |-> 0]
    ELSE InsertTags(map, config_item.tags,
                    [ip |-> ip_addr_obj.ip, port |-> PortAsU16(config_item.port)])

\* One turn of the outer loop: an item whose ip does not parse is skipped.
InsertItem(map, config_item, ip_addr_obj) ==
    IF ~ip_addr_obj.ok THEN map
    ELSE InsertTags(map, config_item.tags,
                    [ip |-> ip_addr_obj.ip, port |-> PortAsU16(config_item.port)])

RECURSIVE BuildRecordsFrom(_, _)
\* The outer loop over the configuration items.
BuildRecordsFrom(map, items) ==
    IF items = <<>> THEN map
    ELSE BuildRecordsFrom(InsertItem(map, Head(items), ParseIpv4(Head(items).ip)),
                          Tail(items))

\* HashMap::new()
EmptyMap == [k \in {} |-> 0]

\* The dns_records_map start_dns_server builds from the extracted list.
BuildDnsRecordsMap(config_data_from_protobuf) ==
    BuildRecordsFrom(EmptyMap, config_data_from_protobuf)

\* ------------------------------------------------------------------------
\* The process: main, start_dns_server and the server loop
\* ------------------------------------------------------------------------

\* the length of incoming_packet_buffer
BUFFER_LEN == 512
\* the code of every std::process::exit in main
EXIT_FAILURE == 1

VARIABLES
    pc,                          \* where the process is
    config_file,                 \* the file at /__config__ as the file system holds it
    config_file_bytes,           \* main: the bytes read from it
    extracted_network_info_list, \* main: the list the walker extracted
    dns_records_map,             \* start_dns_server: the record table
    udp_socket,                  \* start_dns_server: "none" until bind succeeds
    incoming_packet_buffer,      \* start_dns_server: the receive buffer
    number_of_bytes_received,    \* the length recv_from returned last
    client_source_address,       \* the source address recv_from returned last
    parsed_dns_query,            \* the result of the last parse_dns_query_packet
    response_packet_bytes,       \* the response built last
    exit_code,                   \* the set of codes the process has exited with
    log,                         \* what the socket has seen: receives, drops, sends
    varint_buffer,               \* a caller of read_varint: the slice it passes as buffer
    varint_result                \* a caller of read_varint: what the call returned

vars == <<pc, config_file, config_file_bytes, extracted_network_info_list,
          dns_records_map, udp_socket, incoming_packet_buffer, number_of_bytes_received,
          client_source_address, parsed_dns_query, response_packet_bytes,
          exit_code, log, varint_buffer, varint_result>>

config_vars == <<config_file, config_file_bytes, extracted_network_info_list,
                 dns_records_map>>

startup_vars == <<config_vars, udp_socket>>

loop_vars == <<incoming_packet_buffer, number_of_bytes_received, client_source_address,
               parsed_dns_query, response_packet_bytes, log>>

varint_vars == <<varint_buffer, varint_result>>

\* No call of read_varint has returned.
NoRead == [ok |-> FALSE, err |-> "not called", value |-> U64Zero, rest |-> <<>>]

\* No caller of read_varint is modelled on its own.
NoVarintCall ==
    /\ varint_buffer = <<>>
    /\ varint_result = NoRead

\* An entry of the log.
Event(kind, bytes, addr) == [kind |-> kind, bytes |-> bytes, addr |-> addr]

\* The number of recv_from calls that have returned.
RecvCount == Cardinality({i \in DOMAIN log : log[i].kind \in {"recv", "recv_err"}})

\* received_dns_packet_slice that is the whole buffer, stale bytes included.
received_dns_packet_whole_buffer == incoming_packet_buffer

\* The datagram the loop is working on: &incoming_packet_buffer[..n].
received_dns_packet_slice == Slice(incoming_packet_buffer, 0, number_of_bytes_received)

\* std::process::exit(1)
Exit ==
    /\ pc' = "exit"
    /\ exit_code' = exit_code \cup {EXIT_FAILURE}

\* File::open succeeds.
OpenConfigOk ==
    /\ pc = "open"
    /\ config_file.status # "absent"
    /\ pc' = "read"
    /\ UNCHANGED <<startup_vars, loop_vars, exit_code>>
    /\ UNCHANGED varint_vars

\* File::open fails: main logs and exits.
OpenConfigErr ==
    /\ pc = "open"
    /\ config_file.status = "absent"
    /\ Exit
    /\ UNCHANGED <<startup_vars, loop_vars>>
    /\ UNCHANGED varint_vars

\* read_to_end succeeds.
ReadConfigOk ==
    /\ pc = "read"
    /\ config_file.status = "present"
    /\ config_file_bytes' = config_file.bytes
    /\ pc' = "parse_config"
    /\ UNCHANGED <<config_file, extracted_network_info_list, dns_records_map,
                   udp_socket, loop_vars, exit_code>>
    /\ UNCHANGED varint_vars

\* read_to_end fails: main logs and exits.
ReadConfigErr ==
    /\ pc = "read"
    /\ config_file.status = "unreadable"
    /\ Exit
    /\ UNCHANGED <<startup_vars, loop_vars>>
    /\ UNCHANGED varint_vars

\* ParseConfig going on with whatever was extracted before a parse error.
ParseConfigLenient ==
    /\ pc = "parse_config"
    /\ extracted_network_info_list' = parse_configuration_file_proto(config_file_bytes).results
    /\ pc' = "start"
    /\ UNCHANGED <<config_file, config_file_bytes, dns_records_map, udp_socket, loop_vars,
                   exit_code>>
    /\ UNCHANGED varint_vars

\* main parses the configuration: the extracted list, or exit on a parse
\* error.
ParseConfig ==
    /\ pc = "parse_config"
    /\ LET parsed == parse_configuration_file_proto(config_file_bytes)
       IN  IF parsed.ok
           THEN /\ extracted_network_info_list' = parsed.results
                /\ pc' = "start"
                /\ UNCHANGED exit_code
           ELSE /\ Exit
                /\ UNCHANGED extracted_network_info_list
    /\ UNCHANGED <<config_file, config_file_bytes, dns_records_map, udp_socket, loop_vars>>
    /\ UNCHANGED varint_vars

\* start_dns_server builds the record table.
BuildRecordTable ==
    /\ pc = "start"
    /\ dns_records_map' = BuildDnsRecordsMap(extracted_network_info_list)
    /\ pc' = "bind"
    /\ UNCHANGED <<config_file, config_file_bytes, extracted_network_info_list,
                   udp_socket, loop_vars, exit_code>>
    /\ UNCHANGED varint_vars

\* UdpSocket::bind succeeds: the loop starts.
BindOk ==
    /\ pc = "bind"
    /\ udp_socket' = "bound"
    /\ pc' = "recv"
    /\ UNCHANGED <<config_vars, loop_vars, exit_code>>
    /\ UNCHANGED varint_vars

\* UdpSocket::bind fails: start_dns_server returns the error and main exits.
BindErr ==
    /\ pc = "bind"
    /\ Exit
    /\ UNCHANGED <<startup_vars, loop_vars>>
    /\ UNCHANGED varint_vars

\* RecvFrom that drops the source address of the datagram.
RecvFromForgetful(datagram, source) ==
    /\ pc = "recv"
    /\ LET n == Min(Len(datagram), BUFFER_LEN)
       IN  /\ incoming_packet_buffer' =
                  SubSeq(datagram, 1, n) \o SliceFrom(incoming_packet_buffer, n)
           /\ number_of_bytes_received' = n
    /\ log' = Append(log, Event("recv", datagram, source))
    /\ pc' = "parse"
    /\ UNCHANGED <<startup_vars, client_source_address, parsed_dns_query,
                   response_packet_bytes, exit_code>>
    /\ UNCHANGED varint_vars

\* RecvFrom into a buffer that grows to hold the whole datagram.
RecvFromWholeDatagram(datagram, source) ==
    /\ pc = "recv"
    /\ LET n == Len(datagram)
       IN  /\ incoming_packet_buffer' =
                  IF n >= BUFFER_LEN THEN datagram
                  ELSE datagram \o SliceFrom(incoming_packet_buffer, n)
           /\ number_of_bytes_received' = n
    /\ client_source_address' = source
    /\ log' = Append(log, Event("recv", datagram, source))
    /\ pc' = "parse"
    /\ UNCHANGED <<startup_vars, parsed_dns_query, response_packet_bytes, exit_code>>
    /\ UNCHANGED varint_vars

\* recv_from returns a datagram: its first BUFFER_LEN bytes overwrite the
\* head of the buffer, the rest of the buffer keeps what it held.
RecvFrom(datagram, source) ==
    /\ pc = "recv"
    /\ LET n == Min(Len(datagram), BUFFER_LEN)
       IN  /\ incoming_packet_buffer' =
                  SubSeq(datagram, 1, n) \o SliceFrom(incoming_packet_buffer, n)
           /\ number_of_bytes_received' = n
    /\ client_source_address' = source
    /\ log' = Append(log, Event("recv", datagram, source))
    /\ pc' = "parse"
    /\ UNCHANGED <<startup_vars, parsed_dns_query, response_packet_bytes, exit_code>>
    /\ UNCHANGED varint_vars

\* parse_dns_query_packet on the received slice: on an error the loop logs
\* and goes back to receiving.
ParseQuery ==
    /\ pc = "parse"
    /\ LET parsed == parse_dns_query_packet(received_dns_packet_slice)
       IN  /\ parsed_dns_query' = parsed
           /\ IF parsed.ok
              THEN /\ pc' = "build"
                   /\ UNCHANGED log
              ELSE /\ pc' = "recv"
                   /\ log' = Append(log, Event("drop", <<>>, client_source_address))
    /\ UNCHANGED <<startup_vars, incoming_packet_buffer, number_of_bytes_received,
                   client_source_address, response_packet_bytes, exit_code>>
    /\ UNCHANGED varint_vars

\* build_dns_response_packet: a panic of the name encoder unwinds main.
BuildResponse ==
    /\ pc = "build"
    /\ LET built == build_dns_response_packet(parsed_dns_query, dns_records_map)
       IN  IF built.panic
           THEN /\ pc' = "panic"
                /\ UNCHANGED response_packet_bytes
           ELSE /\ pc' = "send"
                /\ response_packet_bytes' = built.bytes
    /\ UNCHANGED <<startup_vars, incoming_packet_buffer, number_of_bytes_received,
                   client_source_address, parsed_dns_query, exit_code, log>>
    /\ UNCHANGED varint_vars

\* send_to, whether it succeeds or fails: the loop goes back to receiving.
SendTo(kind) ==
    /\ log' = Append(log, Event(kind, response_packet_bytes, client_source_address))
    /\ pc' = "recv"
    /\ UNCHANGED <<startup_vars, incoming_packet_buffer, number_of_bytes_received,
                   client_source_address, parsed_dns_query, response_packet_bytes,
                   exit_code>>
    /\ UNCHANGED varint_vars

\* send_to succeeds.
SendOk ==
    /\ pc = "send"
    /\ SendTo("send")

\* SendErr that returns the error from start_dns_server, so that main exits.
SendErrFatal ==
    /\ pc = "send"
    /\ log' = Append(log, Event("send_err", response_packet_bytes, client_source_address))
    /\ Exit
    /\ UNCHANGED <<startup_vars, incoming_packet_buffer, number_of_bytes_received,
                   client_source_address, parsed_dns_query, response_packet_bytes>>
    /\ UNCHANGED varint_vars

\* send_to fails: the loop logs the error.
SendErr ==
    /\ pc = "send"
    /\ SendTo("send_err")

\* recv_from fails: the loop logs and receives again.
RecvFailure ==
    /\ pc = "recv"
    /\ log' = Append(log, Event("recv_err", <<>>, "nobody"))
    /\ UNCHANGED <<pc, startup_vars, incoming_packet_buffer, number_of_bytes_received,
                   client_source_address, parsed_dns_query, response_packet_bytes,
                   exit_code>>
    /\ UNCHANGED varint_vars

\* A caller hands its slice to read_varint(&mut data): on Ok the slice is
\* advanced past the varint, on Err it stays as it was. The caller goes on
\* reading, as the loops of the walker do, until an error or the end.
ReadVarint ==
    /\ pc = "varint"
    /\ varint_result = NoRead \/ (varint_result.ok /\ varint_buffer # <<>>)
    /\ LET read == read_varint(varint_buffer)
       IN  /\ varint_result' = read
           /\ varint_buffer' = IF read.ok THEN read.rest ELSE varint_buffer
    /\ UNCHANGED <<pc, startup_vars, loop_vars, exit_code>>

\* ------------------------------------------------------------------------
\* Inputs: configuration files
\* ------------------------------------------------------------------------

\* The strings of the scenarios, as bytes.
StrSvcA == <<115, 118, 99, 45, 97>>
StrMissing == <<109, 105, 115, 115, 105, 110, 103>>
StrIp5 == <<49, 48, 46, 48, 46, 48, 46, 53>>
StrIp6 == <<49, 48, 46, 48, 46, 48, 46, 54>>
StrIp256 == <<49, 48, 46, 48, 46, 48, 46, 50, 53, 54>>

RECURSIVE EncVarint(_)
\* The base-128 encoding of a natural number, low group first.
EncVarint(n) ==
    IF n < 128 THEN <<n>> ELSE <<128 + (n % 128)>> \o EncVarint(n \div 128)

\* The tag of a field.
EncTag(field_number, wire_type) == EncVarint(field_number * 8 + wire_type)

\* A length-delimited field.
EncLengthDelimited(field_number, bytes) ==
    EncTag(field_number, WIRE_TYPE_LENGTH_DELIMITED) \o EncVarint(Len(bytes)) \o bytes

\* message Uri { string ip = 1; int32 port = 2; }
EncUri(uri) ==
    EncLengthDelimited(1, uri.ip) \o EncTag(2, WIRE_TYPE_VARINT) \o EncVarint(uri.port)

\* message Uri_Slot { int32 internal_port = 1; repeated Uri uri = 2; }
EncUriSlot(uris) ==
    EncTag(1, WIRE_TYPE_VARINT) \o EncVarint(8080)
    \o Flatten([i \in 1..Len(uris) |-> EncLengthDelimited(2, EncUri(uris[i]))])

\* message Instance { Service.Api api = 1; repeated Uri_Slot uri_slot = 2; }
EncInstance(uris) ==
    EncLengthDelimited(1, <<8, 1>>) \o EncLengthDelimited(2, EncUriSlot(uris))

\* message NetworkResolution { repeated string tags = 1; Instance network_client = 2; }
EncNetworkResolution(resolution) ==
    Flatten([i \in 1..Len(resolution.tags) |-> EncLengthDelimited(1, resolution.tags[i])])
    \o EncLengthDelimited(2, EncInstance(resolution.uris))

\* message ConfigurationFile { ... repeated NetworkResolution network_resolution = 3; ... }
EncConfigurationFile(resolutions) ==
    EncLengthDelimited(1, <<>>)
    \o Flatten([i \in 1..Len(resolutions) |->
                   EncLengthDelimited(3, EncNetworkResolution(resolutions[i]))])

Uri(ip, port) == [ip |-> ip, port |-> port]
Resolution(tags, uris) == [tags |-> tags, uris |-> uris]

\* One tag, one address: tag "svc-a" at 10.0.0.5:80.
ConfigScenario == <<Resolution(<<StrSvcA>>, <<Uri(StrIp5, 80)>>)>>

\* Tags in upper case, beyond ASCII, and the root: "A", "É", ".".
ConfigCase == <<Resolution(<<<<65>>, <<195, 137>>, <<DOT>>>>, <<Uri(StrIp5, 80)>>)>>

\* Tags that end in more than one '.' or hold one inside: "a..", "a.A.".
ConfigDots == <<Resolution(<<<<97, DOT, DOT>>, <<97, DOT, 65, DOT>>>>, <<Uri(StrIp6, 8080)>>)>>

\* The same name twice, a port beyond 16 bits and an ip that is no IPv4:
\* "a" at 10.0.0.5:80, then "A." at 10.0.0.6:70000 and at 10.0.0.256:53.
ConfigMixed ==
    <<Resolution(<<<<97>>>>, <<Uri(StrIp5, 80)>>),
      Resolution(<<<<65, DOT>>>>, <<Uri(StrIp6, 70000), Uri(StrIp256, 53)>>)>>

\* Well-formed files the walker accepts.
GoodConfigBytes ==
    {<<>>, <<8, 1>>} \cup
    {EncConfigurationFile(c) : c \in {ConfigScenario, ConfigCase, ConfigDots, ConfigMixed}}

\* Files the walker rejects: a file cut short, a varint that never ends, a
\* group wire type, a wrong wire type on network_resolution.
BadConfigBytes ==
    {LET whole == EncConfigurationFile(ConfigScenario) IN SubSeq(whole, 1, Len(whole) - 1),
     <<255>>, <<11>>, <<24, 1>>}

\* What the file system may hold at /__config__.
ConfigFiles ==
    {[status |-> "absent", bytes |-> <<>>], [status |-> "unreadable", bytes |-> <<>>]}
    \cup {[status |-> "present", bytes |-> b] : b \in GoodConfigBytes \cup BadConfigBytes}

\* ------------------------------------------------------------------------
\* Inputs: datagrams
\* ------------------------------------------------------------------------

\* The most labels of a generated query name.
MaxLabels == 2
\* The most recv_from calls of a run of the server.
MaxRecv == 2

\* A 16-bit field as a client writes it.
Be16(v) == <<v \div 256, v % 256>>

\* A query header.
Header(txid, flags, qdcount, others) ==
    Be16(txid) \o Be16(flags) \o Be16(qdcount) \o Be16(others) \o Be16(others) \o Be16(others)

\* A name as a client encodes it: each label behind its length, then 0.
EncodeLabels(labels) ==
    Flatten([i \in 1..Len(labels) |-> <<Len(labels[i])>> \o labels[i]]) \o <<0>>

\* A query datagram.
Query(header, labels, qtype, qclass, extra) ==
    header \o EncodeLabels(labels) \o Be16(qtype) \o Be16(qclass) \o extra

\* The header of scenario 1: txid 0x1234, flags 0x0100 (RD), one question.
PlainHeader == Header(4660, 256, 1, 0)

\* Labels of generated names: "a", "A", ".", "a.", "É", and the two halves
\* of "É", each of them ill-formed UTF-8 alone.
Labels == {<<97>>, <<65>>, <<DOT>>, <<97, DOT>>, <<195, 137>>, <<195>>, <<137>>}

Names == UNION {[1..n -> Labels] : n \in 0..MaxLabels}

\* Queries for the generated names: A, TXT, AAAA and a type above 255; class
\* IN and a class whose low byte is not 1; with and without a trailing byte.
NameQueries ==
    {Query(PlainHeader, name, qtype, qclass, extra) :
        name \in Names, qtype \in {1, 16, 28, 257}, qclass \in {1, 256},
        extra \in {<<>>, <<7>>}}

\* The queries of the scenarios: "svc-a", "missing", and "SVC-A." sent as
\* one label.
ScenarioQueries ==
    {Query(PlainHeader, <<StrSvcA>>, qtype, 1, <<>>) : qtype \in {1, 16, 28}}
    \cup {Query(PlainHeader, <<StrMissing>>, 1, 1, <<>>),
          Query(PlainHeader, <<<<83, 86, 67, 45, 65, DOT>>>>, 1, 1, <<>>)}

\* Headers with the other flag bits, counts and ids: responses (QR), other
\* opcodes, every remaining flag bit set, QDCOUNT 0, 2 and 256.
HeaderQueries ==
    {Query(Header(txid, flags, qdcount, others), <<<<97>>>>, 1, qclass, <<>>) :
        txid \in {0, 43981}, flags \in {0, 2047, 32768, 2048, 30720, 34816},
        qdcount \in {0, 1, 2, 256}, others \in {0, 65535}, qclass \in {1, 3}}

\* Names the parser must refuse or only just accept: a compression pointer
\* first and after a label, labels of 63 and of 64 bytes, a label longer
\* than the datagram.
RawQueries ==
    {PlainHeader \o raw \o <<0, 1, 0, 1>> :
        raw \in {<<192, 12>>, <<1, 97, 192, 12>>, <<63>> \o Rep(97, 63) \o <<0>>,
                 <<64>> \o Rep(97, 64) \o <<0>>, <<9, 97>>, <<1, 97>>}}

\* Datagrams cut short at every length.
CutQueries ==
    LET whole == Query(PlainHeader, <<<<97>>, <<65>>>>, 1, 1, <<>>)
    IN  {SubSeq(whole, 1, k) : k \in 0..(Len(whole) - 1)}

\* Seven labels of 63 bytes and one of the given length: the name ends at
\* offset 462 + last of the datagram.
LongName(last) == [i \in 1..8 |-> IF i < 8 THEN Rep(97, 63) ELSE Rep(97, last)]

\* Datagrams around the size of the receive buffer: a short question
\* followed by 500 more bytes; questions that end at byte 512, at byte 513
\* and at byte 529, with and without a byte behind them.
BufferSizedQueries ==
    {Query(PlainHeader, <<StrSvcA>>, qtype, 1, Rep(0, 500)) : qtype \in {1, 16}}
    \cup {Query(PlainHeader, LongName(last), 1, 1, extra) :
             last \in {46, 47, 63}, extra \in {<<>>, <<7>>}}

\* The datagrams of the codec specification.
CodecDatagrams ==
    NameQueries \cup ScenarioQueries \cup HeaderQueries \cup RawQueries \cup CutQueries
    \cup BufferSizedQueries

\* The datagrams of the server specification: accepted ones for a known and
\* an unknown name, and refused ones (a response, another opcode, two
\* questions, a class that is not IN, a datagram shorter than a header).
AcceptedDatagrams ==
    {Query(PlainHeader, <<StrSvcA>>, 1, 1, <<>>),
     Query(PlainHeader, <<StrMissing>>, 16, 1, <<>>)}

RefusedDatagrams ==
    {Query(Header(7, 32768, 1, 0), <<StrSvcA>>, 1, 1, <<>>),
     Query(Header(7, 2048, 1, 0), <<StrSvcA>>, 1, 1, <<>>),
     Query(Header(7, 256, 2, 0), <<StrSvcA>>, 1, 1, <<>>),
     Query(PlainHeader, <<StrSvcA>>, 1, 3, <<>>),
     <<18, 52, 1>>}

Addresses == {"client1", "client2"}

\* The datagrams with the clients they come from: both clients send the
\* accepted ones, the first client sends the refused ones.
Arrivals ==
    (AcceptedDatagrams \X Addresses) \cup (RefusedDatagrams \X {"client1"})

\* ------------------------------------------------------------------------
\* Specifications
\* ------------------------------------------------------------------------

\* "no query parsed yet"
NoQuery == QueryErr("none")

LoopInit ==
    /\ incoming_packet_buffer = Rep(0, BUFFER_LEN)
    /\ number_of_bytes_received = 0
    /\ client_source_address = "nobody"
    /\ parsed_dns_query = NoQuery
    /\ response_packet_bytes = <<>>
    /\ exit_code = {}
    /\ log = <<>>

\* The process as main starts.
Init ==
    /\ pc = "open"
    /\ config_file \in ConfigFiles
    /\ config_file_bytes = <<>>
    /\ extracted_network_info_list = <<>>
    /\ dns_records_map = EmptyMap
    /\ udp_socket = "none"
    /\ LoopInit
    /\ NoVarintCall

\* The server receives a datagram.
Recv ==
    /\ RecvCount < MaxRecv
    /\ \E arrival \in Arrivals : RecvFrom(arrival[1], arrival[2])

\* The server's recv_from fails.
RecvErr ==
    /\ RecvCount < MaxRecv
    /\ RecvFailure

Next ==
    \/ OpenConfigOk
    \/ OpenConfigErr
    \/ ReadConfigOk
    \/ ReadConfigErr
    \/ ParseConfig
    \/ BuildRecordTable
    \/ BindOk
    \/ BindErr
    \/ Recv
    \/ RecvErr
    \/ ParseQuery
    \/ BuildResponse
    \/ SendOk
    \/ SendErr

Spec == Init /\ [][Next]_vars

\* The codec specification: the server right after a successful start (the
\* file read and parsed, the table built, the socket bound) answers one
\* datagram out of a wide set.
InitCodec ==
    /\ pc = "recv"
    /\ config_file \in {[status |-> "present", bytes |-> b] : b \in GoodConfigBytes}
    /\ config_file_bytes = config_file.bytes
    /\ extracted_network_info_list = parse_configuration_file_proto(config_file_bytes).results
    /\ dns_records_map = BuildDnsRecordsMap(extracted_network_info_list)
    /\ udp_socket = "bound"
    /\ LoopInit
    /\ NoVarintCall

\* The first datagram arrives.
RecvCodec ==
    /\ log = <<>>
    /\ \E datagram \in CodecDatagrams : RecvFrom(datagram, "client1")

NextCodec ==
    \/ RecvCodec
    \/ ParseQuery
    \/ BuildResponse
    \/ SendOk
    \/ SendErr

SpecCodec == InitCodec /\ [][NextCodec]_vars

\* ------------------------------------------------------------------------
\* Reading a datagram and a response as the claims do
\* ------------------------------------------------------------------------

\* The 16-bit big-endian word at a 0-based offset.
WordAt(bytes, offset) == bytes[offset + 1] * 256 + bytes[offset + 2]

RECURSIVE NameEnd(_, _)
\* The offset just behind the name that starts at offset: behind its zero
\* byte, or the length of bytes when the labels run beyond them.
NameEnd(bytes, offset) ==
    IF offset >= Len(bytes) THEN Len(bytes)
    ELSE IF bytes[offset + 1] = 0 THEN offset + 1
    ELSE NameEnd(bytes, offset + 1 + bytes[offset + 1])

\* A response has been built for the datagram in the buffer.
Answered == pc = "send"

\* The question of the accepted query.
Question == parsed_dns_query.question

\* The fields of the response header.
RespFlags == WordAt(response_packet_bytes, 2)
RespRcode == RespFlags % 16
RespAncount == WordAt(response_packet_bytes, 6)

\* The end of the question section of the response, and what follows it.
RespQuestionEnd == NameEnd(response_packet_bytes, HEADER_LEN) + 4
RespQuestionName == Slice(response_packet_bytes, HEADER_LEN, RespQuestionEnd - 4)
RespAnswer == SliceFrom(response_packet_bytes, RespQuestionEnd)

\* The lookup key as the specification defines it.
KeyOf(name) == ToLowercase(StripSuffixDot(name))

\* "<ip>:<port>" of a table entry.
Rendered(entry) == Ipv4ToString(entry.ip) \o <<COLON>> \o Decimal(entry.port)

\* The (RCODE, ANCOUNT) of the policy table for a question and a table.
PolicyOf(question, table) ==
    IF KeyOf(question.qname) \notin DOMAIN table THEN <<3, 0>>
    ELSE IF question.qtype = 1 THEN <<0, 1>>
    ELSE IF question.qtype = 16
    THEN (IF Len(Rendered(table[KeyOf(question.qname)])) <= 255 THEN <<0, 1>> ELSE <<2, 0>>)
    ELSE <<0, 0>>

\* ------------------------------------------------------------------------
\* C1
\* ------------------------------------------------------------------------

\* C1: for every accepted query and every table, with key = lowercase(QNAME
\* without at most one trailing '.'), the response carries the RCODE and the
\* ANCOUNT of the policy table: unknown key -> (3, 0); known and A -> (0, 1);
\* known and TXT -> (0, 1), or (2, 0) when "ip:port" is longer than 255
\* bytes; known and any other type -> (0, 0).
C1_ResponsePolicy ==
    Answered => <<RespRcode, RespAncount>> = PolicyOf(Question, dns_records_map)

\* A TXT query whose name is found only after the dot is stripped and the
\* letters are lowered got its answer.
C1_Witness ==
    /\ Answered
    /\ Question.qtype = 16
    /\ Question.qname # KeyOf(Question.qname)
    /\ KeyOf(Question.qname) \in DOMAIN dns_records_map
    /\ RespAncount = 1

\* ------------------------------------------------------------------------
\* C2
\* ------------------------------------------------------------------------

\* C2: every response starts with a 12-byte header: the transaction id of
\* the query, the flags word 0x8400 | RCODE (QR and AA set, every other flag
\* bit clear whatever the query's flags were), QDCOUNT 1, ANCOUNT 0 or 1,
\* NSCOUNT 0 and ARCOUNT 0.
C2_ResponseHeader ==
    Answered =>
        /\ Len(response_packet_bytes) >= 12
        /\ Slice(response_packet_bytes, 0, 2) = Slice(received_dns_packet_slice, 0, 2)
        /\ RespFlags = 33792 + PolicyOf(Question, dns_records_map)[1]
        /\ WordAt(response_packet_bytes, 4) = 1
        /\ RespAncount \in {0, 1}
        /\ WordAt(response_packet_bytes, 8) = 0
        /\ WordAt(response_packet_bytes, 10) = 0

\* A query with every flag bit but QR and the opcode set, and with non-zero
\* counts, was answered with NXDOMAIN.
C2_Witness ==
    /\ Answered
    /\ WordAt(received_dns_packet_slice, 2) = 2047
    /\ WordAt(received_dns_packet_slice, 8) = 65535
    /\ WordAt(received_dns_packet_slice, 0) = 43981
    /\ RespRcode = 3

\* ------------------------------------------------------------------------
\* C3
\* ------------------------------------------------------------------------

\* The question section of the accepted query, as the datagram holds it.
QueryQuestionBytes ==
    Slice(received_dns_packet_slice, HEADER_LEN,
          NameEnd(received_dns_packet_slice, HEADER_LEN) + 4)

\* C3: the question section of the response (from offset 12) is the
\* question of the query byte for byte: the same QNAME bytes, QTYPE and
\* QCLASS, whatever the RCODE.
C3_QuestionEchoed ==
    Answered =>
        Slice(response_packet_bytes, HEADER_LEN, RespQuestionEnd) = QueryQuestionBytes

\* ------------------------------------------------------------------------
\* C4
\* ------------------------------------------------------------------------

\* The answer record the specification describes for a question and the
\* entry stored under its key, behind the given NAME.
AnswerRecord(name_bytes, question, entry) ==
    name_bytes
    \o <<question.qtype \div 256, question.qtype % 256>>
    \o <<0, 1>>
    \o <<0, 0, 0, 60>>
    \o (IF question.qtype = 1
        THEN <<0, 4>> \o entry.ip
        ELSE <<0, 1 + Len(Rendered(entry))>> \o <<Len(Rendered(entry))>> \o Rendered(entry))

\* C4: with ANCOUNT = 1 exactly one answer record follows the question and
\* nothing follows it: NAME as the question's QNAME in the response, TYPE
\* the QTYPE, CLASS 1, TTL 60, and RDLENGTH 4 with the IPv4 octets for A,
\* RDLENGTH 1 + n with the byte n and the n bytes of "<ip>:<port>" for TXT;
\* with ANCOUNT = 0 the response ends behind the question.
C4_AnswerRecord ==
    Answered =>
        IF RespAncount = 1
        THEN /\ Question.qtype \in {1, 16}
             /\ KeyOf(Question.qname) \in DOMAIN dns_records_map
             /\ RespAnswer = AnswerRecord(RespQuestionName, Question,
                                          dns_records_map[KeyOf(Question.qname)])
        ELSE RespAnswer = <<>>

\* A TXT answer for an entry whose port was narrowed to 16 bits.
C4_Witness ==
    /\ Answered
    /\ RespAncount = 1
    /\ Question.qtype = 16
    /\ dns_records_map[KeyOf(Question.qname)].port = 4464

\* ------------------------------------------------------------------------
\* C5
\* ------------------------------------------------------------------------

\* The table is built from [{tags: ["svc-a"], ip: "10.0.0.5", port: 80}] and
\* the TXT query for "svc-a" has been answered.
Scenario2 ==
    /\ Answered
    /\ extracted_network_info_list = <<[tags |-> <<StrSvcA>>, ip |-> StrIp5, port |-> 80]>>
    /\ Question = [qname |-> StrSvcA, qtype |-> 16, qclass |-> 1]

\* The RDLENGTH and the RDATA of the answer record of the response.
RespRdlength == WordAt(RespAnswer, Len(RespQuestionName) + 8)
RespRdata == SliceFrom(RespAnswer, Len(RespQuestionName) + 10)

\* C5 as stated: in scenario 2 the answer has RDLENGTH 12 and RDATA
\* 08 31 30 2e 30 2e 30 2e 35 3a 38 30.
C5_AsStated ==
    Scenario2 =>
        /\ RespRdlength = 12
        /\ RespRdata = <<8, 49, 48, 46, 48, 46, 48, 46, 53, 58, 56, 48>>

\* C5 (amended): in scenario 2 the answer has RDLENGTH 12 and RDATA
\* 0b 31 30 2e 30 2e 30 2e 35 3a 38 30: the length byte is 11, the length
\* of "10.0.0.5:80".
C5_TxtScenario ==
    Scenario2 =>
        /\ RespAncount = 1
        /\ RespRdlength = 12
        /\ RespRdata = <<11, 49, 48, 46, 48, 46, 48, 46, 53, 58, 56, 48>>

C5_Witness == Scenario2 /\ Len(RespRdata) = 12

\* ------------------------------------------------------------------------
\* C6
\* ------------------------------------------------------------------------

\* The ASCII letters of a string in lower case.
AsciiLower(str) == [i \in 1..Len(str) |-> IF str[i] \in 65..90 THEN str[i] + 32 ELSE str[i]]

\* Two names are equal up to ASCII letter case and one trailing '.'.
SameName(t, q) ==
    \/ AsciiLower(t) = AsciiLower(q)
    \/ AsciiLower(t) = AsciiLower(q) \o <<DOT>>
    \/ AsciiLower(t) \o <<DOT>> = AsciiLower(q)

EndsInDot(str) == Len(str) >= 1 /\ str[Len(str)] = DOT

\* The configured tags whose record has an ip that is an IPv4 address.
ServedTags ==
    UNION {{extracted_network_info_list[i].tags[j] :
                j \in 1..Len(extracted_network_info_list[i].tags)} :
           i \in {k \in 1..Len(extracted_network_info_list) :
                     ParseIpv4(extracted_network_info_list[k].ip).ok}}

\* The lookup for tag succeeded, and an A query got the record stored for it.
FoundAs(tag) ==
    /\ RespRcode # 3
    /\ Question.qtype = 1 =>
           /\ RespAncount = 1
           /\ RespRdata = dns_records_map[KeyOf(tag)].ip

\* C6 as stated: for every served tag t and every accepted query whose
\* QNAME equals t up to ASCII letter case and one trailing '.', the lookup
\* succeeds and an A query returns the record stored for t.
C6_AsStated ==
    Answered => \A t \in ServedTags : SameName(t, Question.qname) => FoundAs(t)

\* C6 (amended): for every served tag t and every accepted query whose
\* QNAME equals t up to ASCII letter case, or is t with one '.' appended or
\* removed where the shorter of the two names does not itself end in '.',
\* the lookup succeeds and an A query returns the record stored for t.
C6_LookupInsensitive ==
    Answered =>
        \A t \in ServedTags :
            LET q == Question.qname
            IN  (\/ AsciiLower(t) = AsciiLower(q)
                 \/ AsciiLower(t) = AsciiLower(q) \o <<DOT>> /\ ~EndsInDot(q)
                 \/ AsciiLower(t) \o <<DOT>> = AsciiLower(q) /\ ~EndsInDot(t))
                    => FoundAs(t)

\* An A query for "a" was answered from the record configured as "A.".
C6_Witness ==
    /\ Answered
    /\ Question.qtype = 1
    /\ Question.qname = <<97>>
    /\ <<65, DOT>> \in ServedTags
    /\ FoundAs(<<65, DOT>>)

\* ------------------------------------------------------------------------
\* C7
\* ------------------------------------------------------------------------

RECURSIVE NameWellFormed(_, _)
\* The labels that start at offset are each at most 63 bytes long, lie
\* within bytes, are valid UTF-8 and end with a zero byte.
NameWellFormed(bytes, offset) ==
    IF offset >= Len(bytes) THEN FALSE
    ELSE IF bytes[offset + 1] = 0 THEN TRUE
    ELSE IF bytes[offset + 1] > 63 THEN FALSE
    ELSE IF offset + 1 + bytes[offset + 1] > Len(bytes) THEN FALSE
    ELSE IF ~IsUtf8(Slice(bytes, offset + 1, offset + 1 + bytes[offset + 1])) THEN FALSE
    ELSE NameWellFormed(bytes, offset + 1 + bytes[offset + 1])

RECURSIVE NameLabels(_, _)
\* The labels of a well-formed name, in order.
NameLabels(bytes, offset) ==
    IF bytes[offset + 1] = 0 THEN <<>>
    ELSE <<Slice(bytes, offset + 1, offset + 1 + bytes[offset + 1])>>
         \o NameLabels(bytes, offset + 1 + bytes[offset + 1])

\* The number of the first condition of the list that a datagram fails, 0
\* when it passes them all.
FirstFailing(d) ==
    IF Len(d) < 12 THEN 1
    ELSE IF WordAt(d, 2) >= 32768 THEN 2
    ELSE IF (WordAt(d, 2) \div 2048) % 16 # 0 THEN 3
    ELSE IF WordAt(d, 4) # 1 THEN 4
    ELSE IF ~NameWellFormed(d, 12) THEN 5
    ELSE IF NameEnd(d, 12) + 4 > Len(d) THEN 5
    ELSE IF WordAt(d, NameEnd(d, 12) + 2) # 1 THEN 6
    ELSE 0

\* The condition an error message of the parser reports.
ReportedCondition(err) ==
    CASE err = "DNS packet too short (less than 12 bytes for header)" -> 1
      [] err = "Received packet is not a DNS query (QR bit is set to 1)" -> 2
      [] err = "Unsupported DNS Opcode" -> 3
      [] err = "DNS query contains no questions (QDCOUNT is 0)" -> 4
      [] err = "Multiple questions in a single DNS query are not supported." -> 4
      [] err = "Failed to parse QNAME from DNS query" -> 5
      [] err = "DNS packet too short after QNAME (missing QTYPE/QCLASS)" -> 5
      [] err = "Unsupported DNS query class" -> 6
      [] OTHER -> 0

\* The parser has run on the datagram in the buffer.
Parsed ==
    \/ pc \in {"build", "send"}
    \/ pc = "recv" /\ log # <<>> /\ log[Len(log)].kind \in {"drop", "send", "send_err"}

\* The dotted name of the labels of a datagram: "." for no label at all.
DottedName(d) ==
    IF NameLabels(d, 12) = <<>> THEN <<DOT>> ELSE JoinDot(NameLabels(d, 12))

\* C7: the parser accepts a datagram iff, tested in this order with the
\* first failure deciding the error: length >= 12; QR is 0; the opcode is 0;
\* QDCOUNT is 1; the QNAME at offset 12 decodes (no pointer, no label > 63
\* bytes, no truncation, valid UTF-8) and 4 bytes follow it; QCLASS is 1.
\* On acceptance the transaction id, QTYPE and QCLASS are the big-endian
\* words at bytes 0..2 and behind the QNAME; the other counts, the other
\* flag bits and the bytes behind QCLASS have no influence.
C7_ParserAcceptance ==
    Parsed =>
        LET d == received_dns_packet_slice
        IN  /\ parsed_dns_query.ok <=> FirstFailing(d) = 0
            /\ ~parsed_dns_query.ok => ReportedCondition(parsed_dns_query.err) = FirstFailing(d)
            /\ parsed_dns_query.ok =>
                   /\ parsed_dns_query.transaction_id = WordAt(d, 0)
                   /\ Question.qname = DottedName(d)
                   /\ Question.qtype = WordAt(d, NameEnd(d, 12))
                   /\ Question.qclass = WordAt(d, NameEnd(d, 12) + 2)

\* A query with other flag bits set, non-zero other counts, a QTYPE above
\* 255 and a byte behind QCLASS was accepted.
C7_Witness ==
    /\ pc = "build"
    /\ parsed_dns_query.ok
    /\ Question.qtype = 257
    /\ Len(received_dns_packet_slice) > NameEnd(received_dns_packet_slice, 12) + 4

\* A query with QR clear, opcode 0 and QDCOUNT 256 was dropped for its count.
C7_WitnessRejected ==
    /\ Parsed
    /\ ~parsed_dns_query.ok
    /\ FirstFailing(received_dns_packet_slice) = 4
    /\ WordAt(received_dns_packet_slice, 4) = 256

\* ------------------------------------------------------------------------
\* C8
\* ------------------------------------------------------------------------

\* What the socket hands to the loop of a datagram: its first 512 bytes.
Delivered(datagram) == SubSeq(datagram, 1, Min(Len(datagram), 512))

\* The parser accepts the datagram.
Accepted(datagram) == parse_dns_query_packet(Delivered(datagram)).ok

\* The response built for an accepted datagram from the table.
Reply(datagram) ==
    build_dns_response_packet(parse_dns_query_packet(Delivered(datagram)),
                              dns_records_map).bytes

IsSend(event) == event.kind \in {"send", "send_err"}

\* The send attempts so far, and the accepted datagrams so far with the
\* reply and the destination each one calls for.
SendAttempts == SelectSeq(log, IsSend)
IsAcceptedRecv(event) == event.kind = "recv" /\ Accepted(event.bytes)
AcceptedRecvs == SelectSeq(log, IsAcceptedRecv)

\* C8: the send attempts are exactly the accepted datagrams in receive
\* order: each accepted datagram causes one send of its response to its
\* source address before the next datagram is received, and a refused
\* datagram causes no send.
C8_SendsAreAcceptedDatagrams ==
    /\ Len(SendAttempts) <= Len(AcceptedRecvs)
    /\ \A k \in 1..Len(SendAttempts) :
           /\ SendAttempts[k].bytes = Reply(AcceptedRecvs[k].bytes)
           /\ SendAttempts[k].addr = AcceptedRecvs[k].addr
    /\ \A i \in 1..(Len(log) - 1) :
           log[i].kind = "recv" =>
               IF Accepted(log[i].bytes) THEN IsSend(log[i + 1])
               ELSE log[i + 1].kind = "drop"
    /\ pc = "recv" => Len(SendAttempts) = Len(AcceptedRecvs)

\* A refused datagram of one client was followed by an accepted one of the
\* other client, and only the second was answered.
C8_Witness ==
    /\ pc = "recv"
    /\ Len(log) = 4
    /\ log[1].kind = "recv" /\ ~Accepted(log[1].bytes) /\ log[1].addr = "client1"
    /\ log[2].kind = "drop"
    /\ log[3].kind = "recv" /\ Accepted(log[3].bytes) /\ log[3].addr = "client2"
    /\ log[4].kind = "send" /\ log[4].addr = "client2"

\* ------------------------------------------------------------------------
\* C9
\* ------------------------------------------------------------------------

LoopPcs == {"recv", "parse", "build", "send"}

\* A step that logs an error of the loop.
LogsError ==
    /\ Len(log') = Len(log) + 1
    /\ log'[Len(log')].kind \in {"recv_err", "send_err", "drop"}

\* A step of the bound server: it stays in the loop, it goes back to
\* receiving when it logs an error, and a valid datagram is taken through
\* parse, build and send.
LoopStep ==
    /\ pc' \in LoopPcs
    /\ exit_code' = {}
    /\ udp_socket' = "bound"
    /\ LogsError => pc' = "recv"
    /\ (pc = "parse" /\ FirstFailing(received_dns_packet_slice) = 0) => pc' = "build"
    /\ pc = "build" => pc' = "send"
    /\ pc = "send" =>
           /\ pc' = "recv"
           /\ Len(log') = Len(log) + 1
           /\ IsSend(log'[Len(log')])
           /\ log'[Len(log')].addr = client_source_address

\* C9: once the socket is bound the loop never ends: after a recv_from
\* error, a send_to error or a parser error the server is receiving again,
\* and a valid query received afterwards is still answered.
C9_LoopNeverTerminates == [][udp_socket = "bound" => LoopStep]_vars

\* After a failed send of one answer, the next valid query has been
\* answered.
C9_Witness ==
    /\ pc = "recv"
    /\ udp_socket = "bound"
    /\ Len(log) = 4
    /\ log[1].kind = "recv"
    /\ log[2].kind = "send_err"
    /\ log[3].kind = "recv"
    /\ log[4].kind = "send"

\* After a failed recv_from, a valid query has been answered.
C9_WitnessRecvErr ==
    /\ pc = "recv"
    /\ Len(log) = 3
    /\ log[1].kind = "recv_err"
    /\ log[2].kind = "recv"
    /\ log[3].kind = "send"

\* ------------------------------------------------------------------------
\* C10
\* ------------------------------------------------------------------------

\* The process has got as far as the server loop.
Serving == pc \in LoopPcs \/ pc = "panic" \/ log # <<>>

\* Every content a configuration file can have, with what the parser makes
\* of it.
ParsedContents ==
    {<<bytes, parse_configuration_file_proto(bytes)>> : bytes \in {f.bytes : f \in ConfigFiles}}

\* The file was opened, read and parsed with success, and the list in use
\* is what the parse returned.
ConfigurationLoaded ==
    /\ config_file.status = "present"
    /\ config_file_bytes = config_file.bytes
    /\ \E parsed \in ParsedContents :
           /\ parsed[1] = config_file.bytes
           /\ parsed[2].ok
           /\ extracted_network_info_list = parsed[2].results

\* The file has a content the parser refuses.
ConfigurationRefused ==
    /\ config_file.status = "present"
    /\ \E parsed \in ParsedContents : parsed[1] = config_file.bytes /\ ~parsed[2].ok

\* C10: the process receives and answers datagrams only after the file was
\* opened, read and parsed and the socket was bound; a failure of any of
\* the four ends the process with exit code 1 before any datagram is
\* received; an empty file leads to serving with an empty record set; the
\* exit code is never 0.
C10_StartupOrder ==
    /\ Serving => ConfigurationLoaded /\ udp_socket = "bound" /\ exit_code = {}
    /\ (Serving /\ config_file.bytes = <<>>) => dns_records_map = EmptyMap
    /\ pc = "exit" => exit_code = {1} /\ log = <<>> /\ udp_socket = "none"
    /\ config_file.status = "absent" => pc \in {"open", "exit"}
    /\ config_file.status = "unreadable" => pc \in {"open", "read", "exit"}
    /\ ConfigurationRefused => pc \in {"open", "read", "parse_config", "exit"}
    /\ udp_socket = "none" => pc \in {"open", "read", "parse_config", "start", "bind", "exit"}
    /\ 0 \notin exit_code

\* The server started from an empty file has answered a query from an empty
\* record set.
C10_Witness ==
    /\ config_file = [status |-> "present", bytes |-> <<>>]
    /\ dns_records_map = EmptyMap
    /\ log # <<>>
    /\ log[Len(log)].kind = "send"

\* The process has exited on a configuration that does not parse.
C10_WitnessExit ==
    /\ pc = "exit"
    /\ config_file.status = "present"
    /\ exit_code = {1}

\* ------------------------------------------------------------------------
\* The table specification: the server from the start of start_dns_server,
\* for many extracted lists, answers one A or TXT query
\* ------------------------------------------------------------------------

\* The most records of a configuration of the table specification.
MaxItems == 2

StrIp7 == <<49, 48, 46, 48, 46, 48, 46, 55>>
\* "255.255.255.255"
StrIpMax == <<50, 53, 53, 46, 50, 53, 53, 46, 50, 53, 53, 46, 50, 53, 53>>

\* The resolutions the records come from, one Uri each: names that meet in
\* one key ("a", "A.", "a."), a port beyond 16 bits, an ip that is no IPv4,
\* a tag that ends in two dots, letters beyond ASCII ("É", U+03D2), the
\* longest ip with a port of seven digits.
TableResolutions ==
    {Resolution(<<<<97>>>>, <<Uri(StrIp5, 80)>>),
     Resolution(<<<<65, DOT>>>>, <<Uri(StrIp6, 70000)>>),
     Resolution(<<<<98>>, <<97, DOT>>, <<66>>>>, <<Uri(StrIp7, 53)>>),
     Resolution(<<<<97>>, <<99>>>>, <<Uri(StrIp256, 53)>>),
     Resolution(<<<<97, DOT, DOT>>, <<195, 137>>>>, <<Uri(StrIp5, 8080)>>),
     Resolution(<<<<207, 146>>>>, <<Uri(StrIp6, 80)>>),
     Resolution(<<<<99>>>>, <<Uri(StrIpMax, 1000000)>>)}

TableConfigs == UNION {[1..n -> TableResolutions] : n \in 0..MaxItems}

\* The A and TXT queries of the table specification.
TableDatagrams ==
    {Query(PlainHeader, <<name>>, qtype, 1, <<>>) :
        name \in {<<97>>, <<65>>, <<98>>, <<99>>}, qtype \in {1, 16}}

\* start_dns_server is entered with the list main extracted from the file.
InitTable ==
    /\ pc = "start"
    /\ config_file \in {[status |-> "present", bytes |-> EncConfigurationFile(c)] :
                           c \in TableConfigs}
    /\ config_file_bytes = config_file.bytes
    /\ extracted_network_info_list = parse_configuration_file_proto(config_file_bytes).results
    /\ dns_records_map = EmptyMap
    /\ udp_socket = "none"
    /\ LoopInit
    /\ NoVarintCall

\* The first datagram arrives.
RecvTable ==
    /\ log = <<>>
    /\ \E datagram \in TableDatagrams : RecvFrom(datagram, "client1")

NextTable ==
    \/ BuildRecordTable
    \/ BindOk
    \/ BindErr
    \/ RecvTable
    \/ ParseQuery
    \/ BuildResponse
    \/ SendOk
    \/ SendErr

SpecTable == InitTable /\ [][NextTable]_vars

\* ------------------------------------------------------------------------
\* C11
\* ------------------------------------------------------------------------

\* The table has been built from the extracted list.
TableBuilt == pc \notin {"open", "read", "parse_config", "start"}

\* The records of the extracted list whose ip is an IPv4 address.
ServedRecords ==
    SelectSeq(extracted_network_info_list, LAMBDA r : ParseIpv4(r.ip).ok)

\* The (key, ip, port) of every (record, tag) pair of the served records, in
\* processing order.
PairsOf(record) ==
    [j \in 1..Len(record.tags) |->
        [key |-> KeyOf(record.tags[j]), ip |-> ParseIpv4(record.ip).ip,
         port |-> record.port % 65536]]

ServedPairs == Flatten([i \in 1..Len(ServedRecords) |-> PairsOf(ServedRecords[i])])

\* The last of the pairs that normalises to a key.
LastPair(pairs, key) ==
    pairs[CHOOSE i \in 1..Len(pairs) :
              /\ pairs[i].key = key
              /\ \A j \in (i + 1)..Len(pairs) : pairs[j].key # key]

\* C11: when several (record, tag) pairs normalise to one key, the table
\* holds for it the (IPv4, port) of the last such pair in processing order
\* among the records whose ip is an IPv4 address, and an A query for the
\* name returns that address.
C11_LaterValueWins ==
    TableBuilt =>
        LET pairs == ServedPairs
        IN  /\ \A key \in DOMAIN dns_records_map :
                   /\ dns_records_map[key].ip = LastPair(pairs, key).ip
                   /\ dns_records_map[key].port = LastPair(pairs, key).port
            /\ (Answered /\ Question.qtype = 1 /\ RespAncount = 1) =>
                   RespRdata = LastPair(pairs, KeyOf(Question.qname)).ip

\* The name "a" was configured at 10.0.0.5 and then, as "A.", at 10.0.0.6,
\* and the A query for "a" got 10.0.0.6.
C11_Witness ==
    /\ Answered
    /\ Len(extracted_network_info_list) = 2
    /\ extracted_network_info_list[1].ip = StrIp5
    /\ extracted_network_info_list[1].tags = <<<<97>>>>
    /\ extracted_network_info_list[2].ip = StrIp6
    /\ Question = [qname |-> <<97>>, qtype |-> 1, qclass |-> 1]
    /\ RespRdata = <<10, 0, 0, 6>>

\* ------------------------------------------------------------------------
\* C12
\* ------------------------------------------------------------------------

\* The keys the claim expects.
ExpectedKeys ==
    UNION {{KeyOf(ServedRecords[i].tags[j]) : j \in 1..Len(ServedRecords[i].tags)} :
           i \in 1..Len(ServedRecords)}

\* C12: the keys of the table are exactly the lowercase(strip_trailing_dot(t))
\* of the tags t of the records whose ip is an IPv4 address; a record whose
\* ip is none contributes no key, does not abort startup and does not keep
\* the other records out.
C12_KeySet ==
    /\ TableBuilt => DOMAIN dns_records_map = ExpectedKeys
    /\ pc = "bind" => exit_code = {}

\* A list with a record that has no IPv4 address and a record that has one:
\* the server is running with the keys of the second only.
C12_Witness ==
    /\ pc = "recv"
    /\ udp_socket = "bound"
    /\ Len(extracted_network_info_list) = 2
    /\ extracted_network_info_list[1].ip = StrIp256
    /\ extracted_network_info_list[2].ip = StrIp7
    /\ DOMAIN dns_records_map = {<<98>>, <<97>>}

\* ------------------------------------------------------------------------
\* C13
\* ------------------------------------------------------------------------

\* The string holds an uppercase letter: A-Z, a Latin-1 capital, or U+03D2.
HasUppercase(str) ==
    \E i \in 1..Len(str) :
        \/ str[i] \in 65..90
        \/ i > 1 /\ str[i - 1] = 195 /\ str[i] \in (128..158) \ {151}
        \/ i > 1 /\ str[i - 1] = 207 /\ str[i] = 146

HasAsciiUppercase(str) == \E i \in 1..Len(str) : str[i] \in 65..90

\* The tags of the extracted list.
ExtractedTags ==
    UNION {{extracted_network_info_list[i].tags[j] :
                j \in 1..Len(extracted_network_info_list[i].tags)} :
           i \in 1..Len(extracted_network_info_list)}

\* C13 as stated: no key of the table holds an uppercase letter and no key
\* ends with '.'.
C13_AsStated ==
    TableBuilt => \A key \in DOMAIN dns_records_map : ~HasUppercase(key) /\ ~EndsInDot(key)

\* C13 (amended): no key of the table holds an uppercase letter that has a
\* lowercase form (none of A-Z in particular), and a key ends with '.' only
\* when it comes from a tag that ends with "..".
C13_KeysNormalised ==
    TableBuilt =>
        \A key \in DOMAIN dns_records_map :
            /\ ~HasAsciiUppercase(key)
            /\ ToLowercase(key) = key
            /\ EndsInDot(key) =>
                   \E tag \in ExtractedTags :
                       /\ EndsInDot(tag)
                       /\ EndsInDot(StripSuffixDot(tag))
                       /\ key = KeyOf(tag)

\* Tags "A." and "B" are in the table as "a" and "b".
C13_Witness ==
    /\ TableBuilt
    /\ <<65, DOT>> \in ExtractedTags
    /\ <<66>> \in ExtractedTags
    /\ {<<97>>, <<98>>} \subseteq DOMAIN dns_records_map

\* ------------------------------------------------------------------------
\* Inputs: configurations for the walker
\* ------------------------------------------------------------------------

\* The u64 of a small natural number.
U64(n) == [k \in 0..63 |-> IF k < 31 THEN (n \div (2 ^ k)) % 2 ELSE 0]

\* The u64 with the bits of a set of positions.
U64Bits(positions) == [k \in 0..63 |-> IF k \in positions THEN 1 ELSE 0]

\* The g-th group of 7 bits of a u64, g = 0 for the lowest.
GroupOf(bits, g) ==
    LET b(k) == IF k <= 63 THEN bits[k] ELSE 0
    IN  b(7 * g) + 2 * b(7 * g + 1) + 4 * b(7 * g + 2) + 8 * b(7 * g + 3)
        + 16 * b(7 * g + 4) + 32 * b(7 * g + 5) + 64 * b(7 * g + 6)

\* The number of groups up to the highest bit set, at least one.
GroupsNeeded(bits) ==
    IF \A k \in 0..63 : bits[k] = 0 THEN 1
    ELSE ((CHOOSE k \in 0..63 : bits[k] = 1 /\ \A j \in (k + 1)..63 : bits[j] = 0) \div 7) + 1

\* The base-128 encoding of a u64, low group first, every byte but the last
\* with the continuation bit.
EncU64(bits) ==
    [g \in 1..GroupsNeeded(bits) |->
        GroupOf(bits, g - 1) + (IF g < GroupsNeeded(bits) THEN 128 ELSE 0)]

\* A Uri as a configuration gives it: each of ip (a string) and port (a u64)
\* is there or not.
EncUriFields(uri) ==
    (IF uri.ip.some THEN EncLengthDelimited(1, uri.ip.val) ELSE <<>>)
    \o (IF uri.port.some THEN EncTag(2, WIRE_TYPE_VARINT) \o EncU64(uri.port.val) ELSE <<>>)

\* An Instance with one Uri_Slot that holds the given Uris.
EncClient(uris) ==
    EncLengthDelimited(1, <<8, 1>>)
    \o EncLengthDelimited(2, EncTag(1, WIRE_TYPE_VARINT) \o EncVarint(8080)
                             \o Flatten([i \in 1..Len(uris) |->
                                            EncLengthDelimited(2, EncUriFields(uris[i]))]))

\* A field of a NetworkResolution: a tag or a network_client.
TagField(tag) == [kind |-> "tag", tag |-> tag, uris |-> <<>>]
ClientField(uris) == [kind |-> "client", tag |-> <<>>, uris |-> uris]

EncResolutionField(field) ==
    IF field.kind = "tag" THEN EncLengthDelimited(1, field.tag)
    ELSE EncLengthDelimited(2, EncClient(field.uris))

\* A NetworkResolution as the sequence of its fields, and a file of them.
EncResolutionFields(fields) ==
    Flatten([i \in 1..Len(fields) |-> EncResolutionField(fields[i])])

EncWalkerFile(resolutions) ==
    EncLengthDelimited(1, <<>>)
    \o Flatten([i \in 1..Len(resolutions) |->
                   EncLengthDelimited(3, EncResolutionFields(resolutions[i]))])

\* Uris with both fields, with one and with none.
UriBoth == [ip |-> Some(StrIp5), port |-> Some(U64(80))]
UriBoth6 == [ip |-> Some(StrIp6), port |-> Some(U64(8080))]
UriIpOnly == [ip |-> Some(StrIp7), port |-> None]
UriPortOnly == [ip |-> None, port |-> Some(U64(53))]
UriEmpty == [ip |-> None, port |-> None]

UriLists ==
    {<<>>, <<UriBoth>>, <<UriIpOnly>>, <<UriPortOnly>>, <<UriEmpty>>,
     <<UriBoth, UriIpOnly, UriBoth6>>, <<UriPortOnly, UriBoth6>>}

\* Resolutions: tags before the client, no tag at all, tags behind the
\* client, two clients, no client.
WalkerResolutions ==
    UNION {{<<TagField(<<97>>), ClientField(uris)>>,
            <<ClientField(uris)>>,
            <<ClientField(uris), TagField(<<97>>), TagField(<<98>>)>>,
            <<TagField(<<97>>), ClientField(uris), ClientField(<<UriBoth>>)>>,
            <<TagField(<<97>>), ClientField(<<UriBoth>>), ClientField(uris)>>} :
           uris \in UriLists}
    \cup {<<TagField(<<97>>)>>}

\* Files of one resolution, and of two.
WalkerConfigs ==
    {<<r>> : r \in WalkerResolutions}
    \cup {<<r1, r2>> : r1, r2 \in {<<TagField(<<97>>), ClientField(<<UriBoth>>)>>,
                                   <<ClientField(<<UriBoth6>>)>>,
                                   <<TagField(<<98>>), ClientField(<<UriIpOnly, UriBoth6>>)>>}}

\* A fault: bytes that are no well-formed field, with the kind of the fault.
Fault(kind, bytes) == [kind |-> kind, bytes |-> bytes]

\* The faults a message of any level can hold, as an unknown field 15: a
\* varint of 11 bytes, a varint the message ends in, a length beyond the
\* message, the two group wire types.
AnyLevelFaults ==
    {Fault("varint", <<120>> \o Rep(255, 10) \o <<1>>),
     Fault("varint", <<120, 128>>),
     Fault("truncated", <<122, 5, 1>>),
     Fault("group", <<123>>),
     Fault("group", <<124>>)}

\* The faults of the fields of each message: a field the walker decodes with
\* another wire type, a string that is no UTF-8, and the api field of
\* Instance (a message) as a varint.
FaultsAt(level) ==
    AnyLevelFaults \cup
    (CASE level = "file" -> {Fault("wire_type", <<24, 1>>)}
       [] level = "resolution" ->
              {Fault("wire_type", <<8, 1>>), Fault("wire_type", <<16, 1>>),
               Fault("utf8", <<10, 1, 255>>)}
       [] level = "instance" ->
              {Fault("wire_type", <<16, 1>>), Fault("wire_type_api", <<8, 1>>)}
       [] level = "uri_slot" -> {Fault("wire_type", <<10, 0>>), Fault("wire_type", <<16, 1>>)}
       [] level = "uri" ->
              {Fault("wire_type", <<8, 1>>), Fault("wire_type", <<18, 0>>),
               Fault("utf8", <<10, 1, 255>>)})

Levels == {"file", "resolution", "instance", "uri_slot", "uri"}

\* Where the faulty network_client stands: in a resolution with a tag, in
\* one without, or before a second network_client of the same resolution.
Contexts == {"tagged", "untagged", "shadowed"}

\* The bytes a fault adds at the end of the message of its level.
FaultIn(fault, level, at) == IF level = at THEN fault.bytes ELSE <<>>

\* A file with one resolution and one Uri, and a fault at the end of the
\* message of the given level.
EncFaultyFile(fault, level, context) ==
    LET uri == EncUriFields(UriBoth) \o FaultIn(fault, level, "uri")
        uri_slot == EncTag(1, WIRE_TYPE_VARINT) \o EncVarint(8080)
                    \o EncLengthDelimited(2, uri) \o FaultIn(fault, level, "uri_slot")
        instance == EncLengthDelimited(1, <<8, 1>>) \o EncLengthDelimited(2, uri_slot)
                    \o FaultIn(fault, level, "instance")
        resolution ==
            (IF context = "untagged" THEN <<>> ELSE EncLengthDelimited(1, <<97>>))
            \o EncLengthDelimited(2, instance)
            \o (IF context = "shadowed"
                THEN EncLengthDelimited(2, EncClient(<<UriBoth6>>)) ELSE <<>>)
            \o FaultIn(fault, level, "resolution")
    IN  EncLengthDelimited(1, <<>>) \o EncLengthDelimited(3, resolution)
        \o FaultIn(fault, level, "file")

\* The faulty files, each with what it is.
FaultyFiles ==
    UNION {{[bytes |-> EncFaultyFile(fault, level, context), kind |-> fault.kind,
             level |-> level, context |-> context] :
               fault \in FaultsAt(level), context \in Contexts} :
           level \in Levels}

\* Files whose one Uri has a port beyond 16 and beyond 32 bits: 65536,
\* 70000, 2^31, 2^32 - 1, 2^32 + 80, 2^63 + 443, 2^64 - 1, and 80.
PortValues ==
    {U64(80), U64(65536), U64(70000), U64Bits({31}), U64Bits(0..31),
     U64Bits({32, 6, 4}), U64Bits({63, 8, 7, 5, 4, 3, 1, 0}), U64Bits(0..63)}

PortConfigs ==
    {<<<<TagField(<<97>>), ClientField(<<[ip |-> Some(StrIp5), port |-> Some(v)]>>)>>>> :
        v \in PortValues}

\* The files of the walker specification.
WalkerFiles ==
    {EncWalkerFile(c) : c \in WalkerConfigs \cup PortConfigs}
    \cup {f.bytes : f \in FaultyFiles}

\* ------------------------------------------------------------------------
\* The walker specification: main reads one of the walker's files, and the
\* server that starts answers one query for "a"
\* ------------------------------------------------------------------------

InitWalker ==
    /\ pc = "open"
    /\ config_file \in {[status |-> "present", bytes |-> b] : b \in WalkerFiles}
    /\ config_file_bytes = <<>>
    /\ extracted_network_info_list = <<>>
    /\ dns_records_map = EmptyMap
    /\ udp_socket = "none"
    /\ LoopInit
    /\ NoVarintCall

\* The first datagram arrives: an A or a TXT query for "a".
RecvWalker ==
    /\ log = <<>>
    /\ \E qtype \in {1, 16} :
           RecvFrom(Query(PlainHeader, <<<<97>>>>, qtype, 1, <<>>), "client1")

NextWalker ==
    \/ OpenConfigOk
    \/ ReadConfigOk
    \/ ParseConfig
    \/ BuildRecordTable
    \/ BindOk
    \/ RecvWalker
    \/ ParseQuery
    \/ BuildResponse
    \/ SendOk

SpecWalker == InitWalker /\ [][NextWalker]_vars

\* ------------------------------------------------------------------------
\* C14
\* ------------------------------------------------------------------------

\* The low 32 bits of a u64 as a signed number.
LowI32(bits) == (BitsValue(bits, 0, 31) - bits[31] * 2147483647) - bits[31]

\* The tags and the network_client fields of a resolution, in order.
TagsOf(fields) ==
    LET tag_fields == SelectSeq(fields, LAMBDA f : f.kind = "tag")
    IN  [i \in 1..Len(tag_fields) |-> tag_fields[i].tag]

ClientsOf(fields) == SelectSeq(fields, LAMBDA f : f.kind = "client")

\* The Uri has both an ip and a port.
Complete(uri) == uri.ip.some /\ uri.port.some

\* The (ip, port) of the complete Uris of a list of Uris.
AddressesOf(uris) ==
    LET complete == SelectSeq(uris, Complete)
    IN  [i \in 1..Len(complete) |->
            [ip |-> complete[i].ip.val, port |-> LowI32(complete[i].port.val)]]

\* Every complete Uri of a configuration, in the order of the file.
AllAddresses(config) ==
    Flatten([r \in 1..Len(config) |->
                Flatten([c \in 1..Len(ClientsOf(config[r])) |->
                            AddressesOf(ClientsOf(config[r])[c].uris)])])

\* The complete Uris of the last network_client of each resolution that has
\* a tag, with all the tags of the resolution.
ReadRecords(config) ==
    Flatten([r \in 1..Len(config) |->
                LET tags == TagsOf(config[r])
                    clients == ClientsOf(config[r])
                IN  IF tags = <<>> \/ clients = <<>> THEN <<>>
                    ELSE LET found == AddressesOf(clients[Len(clients)].uris)
                         IN  [i \in 1..Len(found) |->
                                 [tags |-> tags, ip |-> found[i].ip, port |-> found[i].port]]])

\* The well-formed files of the walker specification with the configuration
\* each one encodes, the Uris the claim counts and the records the walker
\* is to read.
WellFormedFiles ==
    {[bytes |-> EncWalkerFile(c), stated |-> AllAddresses(c), records |-> ReadRecords(c)] :
        c \in WalkerConfigs \cup PortConfigs}

\* main has the result of the walker.
WalkerDone == pc \notin {"open", "read", "parse_config"}

\* The (ip, port) of the extracted records.
ExtractedAddresses ==
    [i \in 1..Len(extracted_network_info_list) |->
        [ip |-> extracted_network_info_list[i].ip,
         port |-> extracted_network_info_list[i].port]]

\* C14 as stated: for a well-formed configuration the output of the walker
\* holds exactly one record for every Uri with both an ip and a port, and
\* none for a Uri that lacks one.
C14_AsStated ==
    WalkerDone =>
        \A file \in WellFormedFiles :
            file.bytes = config_file.bytes =>
                pc # "exit" /\ ExtractedAddresses = file.stated

\* C14 (amended): for a well-formed configuration the output of the walker
\* holds exactly one record for every Uri with both an ip and a port that
\* stands in the last network_client of a NetworkResolution with at least
\* one tag, and none for any other Uri.
C14_OneRecordPerUri ==
    WalkerDone =>
        \A file \in WellFormedFiles :
            file.bytes = config_file.bytes =>
                pc # "exit" /\ extracted_network_info_list = file.records

\* A network_client with two complete Uris and one without a port gave two
\* records.
C14_Witness ==
    /\ WalkerDone
    /\ config_file.bytes =
           EncWalkerFile(<<<<TagField(<<97>>),
                             ClientField(<<UriBoth, UriIpOnly, UriBoth6>>)>>>>)
    /\ Len(extracted_network_info_list) = 2
    /\ extracted_network_info_list[2].ip = StrIp6

\* ------------------------------------------------------------------------
\* C15
\* ------------------------------------------------------------------------

\* Startup was aborted: no list, no socket, no datagram.
StartupAborted ==
    /\ pc = "exit"
    /\ exit_code = {1}
    /\ extracted_network_info_list = <<>>
    /\ udp_socket = "none"
    /\ log = <<>>

\* C15 as stated: a file with a malformed varint, a truncated
\* length-delimited field, a string that is no UTF-8, a wrong wire type on
\* a typed field or a group wire type at any level is a parse error that
\* aborts startup.
C15_AsStated ==
    WalkerDone =>
        \A file \in FaultyFiles : file.bytes = config_file.bytes => StartupAborted

\* The walker reads the message that holds the fault: the file and the
\* resolutions always, a network_client only of a resolution with a tag and
\* not followed by another network_client.
FaultRead(file) == file.level \in {"file", "resolution"} \/ file.context = "tagged"

\* C15 (amended): such a fault aborts startup when it stands in a message
\* the walker reads, a wrong wire type only on a field the walker decodes
\* (not on Instance.api and the other fields it skips).
C15_FaultAbortsStartup ==
    WalkerDone =>
        \A file \in FaultyFiles :
            (file.bytes = config_file.bytes /\ FaultRead(file) /\ file.kind # "wire_type_api")
                => StartupAborted

\* A Uri with an ip that is no UTF-8, four levels down, ended the process.
C15_Witness ==
    /\ StartupAborted
    /\ \E file \in FaultyFiles :
           /\ file.bytes = config_file.bytes
           /\ file.kind = "utf8"
           /\ file.level = "uri"
           /\ file.context = "tagged"

\* ------------------------------------------------------------------------
\* C18
\* ------------------------------------------------------------------------

\* The files whose one Uri has the port v, with the low 32 bits of v as a
\* signed number and v mod 65536.
PortFiles ==
    {[bytes |-> EncWalkerFile(<<<<TagField(<<97>>),
                                  ClientField(<<[ip |-> Some(StrIp5), port |-> Some(v)]>>)>>>>),
      low32 |-> LowI32(v),
      low16 |-> BitsValue(v, 0, 16)] : v \in PortValues}

\* The character-string of a TXT answer for 10.0.0.5 and a port.
TxtFor(port) ==
    LET text == StrIp5 \o <<COLON>> \o Decimal(port)
    IN  <<Len(text)>> \o text

\* C18: a Uri whose port varint decodes to v is extracted with the low 32
\* bits of v as a signed number, stored in the table with v mod 65536, and
\* rendered so in the TXT string; no value of v is an error or drops the
\* entry.
C18_PortWraps ==
    \A file \in PortFiles :
        file.bytes = config_file.bytes =>
            /\ pc # "exit"
            /\ WalkerDone =>
                   extracted_network_info_list =
                       <<[tags |-> <<<<97>>>>, ip |-> StrIp5, port |-> file.low32]>>
            /\ TableBuilt =>
                   /\ DOMAIN dns_records_map = {<<97>>}
                   /\ dns_records_map[<<97>>].port = file.low16
            /\ (Answered /\ Question.qtype = QTYPE_TXT) =>
                   /\ RespRcode = RCODE_NO_ERROR
                   /\ RespRdata = TxtFor(file.low16)

\* Port 70000 was answered as "10.0.0.5:4464".
C18_Witness ==
    /\ Answered
    /\ Question.qtype = QTYPE_TXT
    /\ extracted_network_info_list =
           <<[tags |-> <<<<97>>>>, ip |-> StrIp5, port |-> 70000]>>
    /\ dns_records_map[<<97>>].port = 4464
    /\ RespRdata = <<13>> \o StrIp5 \o <<COLON, 52, 52, 54, 52>>

\* Port 2^32 - 1 was extracted as -1 and stored as 65535.
C18_WitnessNegative ==
    /\ TableBuilt
    /\ extracted_network_info_list =
           <<[tags |-> <<<<97>>>>, ip |-> StrIp5, port |-> 0 - 1]>>
    /\ dns_records_map[<<97>>].port = 65535

\* ------------------------------------------------------------------------
\* C16
\* ------------------------------------------------------------------------

\* The header of the query followed by the question section of the response.
SyntheticQuery ==
    Slice(received_dns_packet_slice, 0, HEADER_LEN)
        \o Slice(response_packet_bytes, HEADER_LEN, RespQuestionEnd)

\* C16: for an accepted datagram, the query made of its header and the
\* question section of the response is accepted by parse_dns_query_packet
\* with the same DnsQuestion (qname, qtype, qclass) as the datagram.
C16_EchoIdempotent ==
    Answered =>
        LET reparsed == parse_dns_query_packet(SyntheticQuery)
        IN  /\ reparsed.ok
            /\ reparsed.question = Question

\* Where the question section is the one of the query, the synthetic query
\* parses to the same question.
C16_ExactEchoIdempotent ==
    (Answered /\ C3_QuestionEchoed) => C16_EchoIdempotent

\* ------------------------------------------------------------------------
\* C19
\* ------------------------------------------------------------------------

\* The server holds an accepted query.
QueryAccepted == pc \in {"build", "send"}

\* The '.'-separated pieces of the decoded QNAME.
QnamePieces == SplitDot(Question.qname)

\* C19: the label-too-long panic is not reached from the server loop: each
\* '.'-separated piece of the decoded QNAME of an accepted datagram has at
\* most 63 bytes, and build_dns_response_packet returns a packet for it
\* whatever the table.
C19_PanicUnreachable ==
    /\ pc # "panic"
    /\ QueryAccepted =>
           /\ \A i \in 1..Len(QnamePieces) : Len(QnamePieces[i]) <= 63
           /\ ~build_dns_response_packet(parsed_dns_query, dns_records_map).panic

\* A query whose one label has 63 bytes was answered.
C19_Witness ==
    /\ Answered
    /\ Len(Question.qname) = 63
    /\ Len(QnamePieces) = 1
    /\ Len(response_packet_bytes) >= HEADER_LEN + 63 + 6

\* ------------------------------------------------------------------------
\* C20
\* ------------------------------------------------------------------------

\* The datagram that arrived was larger than the receive buffer.
Oversized == log # <<>> /\ log[1].kind = "recv" /\ Len(log[1].bytes) > BUFFER_LEN

\* The question of the datagram that arrived ends behind the first
\* BUFFER_LEN bytes.
QuestionCut == NameEnd(log[1].bytes, HEADER_LEN) + 4 > BUFFER_LEN

\* The parser refused the datagram and nothing is or was sent for it.
Rejected ==
    /\ pc \notin {"build", "send", "panic"}
    /\ Parsed => ~parsed_dns_query.ok
    /\ \A i \in 1..Len(log) : ~IsSend(log[i])

\* C20 as stated: every datagram larger than 512 bytes is rejected: the
\* parser returns an error for its first 512 bytes and no reply is sent.
C20_AsStated == Oversized => Rejected

\* C20 (amended): every datagram larger than 512 bytes whose question does
\* not end within its first 512 bytes is rejected: the parser returns an
\* error for its first 512 bytes and no reply is sent.
C20_CutQuestionRejected == (Oversized /\ QuestionCut) => Rejected

\* A datagram of 513 bytes whose QCLASS ends at byte 513 was dropped.
C20_Witness ==
    /\ Oversized
    /\ QuestionCut
    /\ Len(log[1].bytes) = 513
    /\ number_of_bytes_received = BUFFER_LEN
    /\ pc = "recv"
    /\ log[Len(log)].kind = "drop"

\* A datagram of 523 bytes whose question ends at byte 23 was answered.
C20_WitnessAnswered ==
    /\ Oversized
    /\ Len(log[1].bytes) = 523
    /\ number_of_bytes_received = BUFFER_LEN
    /\ log[Len(log)].kind = "send"

\* ------------------------------------------------------------------------
\* The varint specification: a caller reads varints from a slice
\* ------------------------------------------------------------------------

\* Values of every length of encoding: 0, each single bit, each run of low
\* bits up to 2^64 - 1, and two values of the scenarios.
VarintValues ==
    {U64Zero, U64(300), U64(70000)}
    \cup {U64Bits({k}) : k \in 0..63}
    \cup {U64Bits(0..k) : k \in 0..63}

\* What follows a varint in the slice: nothing, a one-byte varint, a
\* continuation byte, a two-byte varint.
VarintSuffixes == {<<>>, <<0>>, <<128>>, <<255, 1>>}

\* The slices that begin with the encoding of a value.
EncodedBuffers ==
    {[buffer |-> EncU64(v) \o suffix, value |-> v, rest |-> suffix,
      length |-> Len(EncU64(v))] : v \in VarintValues, suffix \in VarintSuffixes}

\* Slices without an end of the varint: continuation bytes only, up to 12
\* of them, and the encodings of 2^63 and 2^64 - 1 cut short; and slices
\* with ten continuation bytes before a last byte.
UnendedBuffers ==
    {Rep(128, n) : n \in 0..12}
    \cup {SubSeq(EncU64(v), 1, k) : v \in {U64Bits({63}), U64Bits(0..63)}, k \in 0..9}
    \cup {Rep(255, 10) \o <<1>>, Rep(128, 10) \o <<0, 0>>}

\* Encodings no encoder writes: zero in two bytes, a tenth byte with bits
\* beyond bit 63, a value in three bytes before another.
OtherBuffers == {<<128, 0>>, Rep(255, 9) \o <<127>>, <<129, 128, 0, 5>>}

VarintBuffers ==
    {c.buffer : c \in EncodedBuffers} \cup UnendedBuffers \cup OtherBuffers

InitVarint ==
    /\ pc = "varint"
    /\ config_file = [status |-> "absent", bytes |-> <<>>]
    /\ config_file_bytes = <<>>
    /\ extracted_network_info_list = <<>>
    /\ dns_records_map = EmptyMap
    /\ udp_socket = "none"
    /\ LoopInit
    /\ varint_buffer \in VarintBuffers
    /\ varint_result = NoRead

NextVarint == ReadVarint

SpecVarint == InitVarint /\ [][NextVarint]_vars

\* ------------------------------------------------------------------------
\* C17
\* ------------------------------------------------------------------------

\* The first ten bytes of the slice all have the continuation bit.
TenContinuationBytes(buffer) ==
    Len(buffer) >= 10 /\ \A i \in 1..10 : buffer[i] >= 128

\* The slice ends before a byte without the continuation bit.
EndsInsideVarint(buffer) == \A i \in 1..Len(buffer) : buffer[i] >= 128

\* What a call of read_varint on the slice has to do.
VarintContract ==
    /\ \A c \in EncodedBuffers :
           varint_buffer = c.buffer =>
               /\ varint_result'.ok
               /\ varint_result'.value = c.value
               /\ varint_buffer' = c.rest
               /\ Len(varint_buffer) - Len(varint_buffer') = c.length
    /\ (TenContinuationBytes(varint_buffer) \/ EndsInsideVarint(varint_buffer)) =>
           ~varint_result'.ok

\* C17: read_varint on the base-128 low-group-first encoding of a u64 v,
\* followed by any bytes, returns v and advances the slice by the length of
\* the encoding; it fails on a slice whose first ten bytes all have the
\* continuation bit, and on a slice that ends before a byte without it.
C17_VarintRoundTrip == [][VarintContract]_vars

\* 2^64 - 1 was read from its ten bytes and the two bytes behind them are
\* left.
C17_Witness ==
    /\ pc = "varint"
    /\ varint_result.ok
    /\ varint_result.value = U64Bits(0..63)
    /\ Len(varint_result.rest) = 2
    /\ varint_buffer = <<255, 1>>

\* Eleven continuation bytes were refused as too long.
C17_WitnessTooLong ==
    /\ pc = "varint"
    /\ varint_result.err = "Varint too long (max 10 bytes for u64)"
    /\ varint_buffer = Rep(128, 11)

\* The encoding of 2^63 without its last byte was refused as too short.
C17_WitnessCut ==
    /\ pc = "varint"
    /\ varint_result.err = "Buffer too short to complete varint or varint malformed"
    /\ varint_buffer = Rep(128, 9)

\* ------------------------------------------------------------------------
\* The loop specification: the bound server receives several datagrams of
\* different lengths into its one buffer
\* ------------------------------------------------------------------------

\* The most recv_from calls of a run of the loop specification.
MaxLoopRecv == 3

\* A query for "svc-a" (23 bytes), a longer one for "missing" (25 bytes),
\* and two datagrams cut short that the bytes of a longer one would
\* complete: the first three bytes of a header, and the query for "svc-a"
\* without its QCLASS.
LoopDatagrams ==
    {Query(PlainHeader, <<StrSvcA>>, 1, 1, <<>>),
     Query(PlainHeader, <<StrMissing>>, 16, 1, <<>>),
     <<18, 52, 1>>,
     SubSeq(Query(PlainHeader, <<StrSvcA>>, 1, 1, <<>>), 1, 21)}

RecvLoop ==
    /\ RecvCount < MaxLoopRecv
    /\ \E datagram \in LoopDatagrams : RecvFrom(datagram, "client1")

RecvErrLoop ==
    /\ RecvCount < MaxLoopRecv
    /\ RecvFailure

NextLoop ==
    \/ RecvLoop
    \/ RecvErrLoop
    \/ ParseQuery
    \/ BuildResponse
    \/ SendOk
    \/ SendErr

SpecLoop == InitCodec /\ [][NextLoop]_vars

\* ------------------------------------------------------------------------
\* C21
\* ------------------------------------------------------------------------

\* What the loop did with the datagram received at position i of the log:
\* whether it sent a reply, and the bytes of it.
OutcomeAt(i) == [sent |-> IsSend(log[i + 1]), bytes |-> log[i + 1].bytes]

\* Two receives of the same bytes had the same outcome.
SameDatagramSameReply ==
    \A i, j \in 1..(Len(log) - 1) :
        (log[i].kind = "recv" /\ log[j].kind = "recv" /\ log[i].bytes = log[j].bytes)
            => OutcomeAt(i) = OutcomeAt(j)

\* The datagram received last.
LastDatagram ==
    LET recvs == SelectSeq(log, LAMBDA event : event.kind = "recv")
    IN  recvs[Len(recvs)].bytes

\* A step of the loop leaves the table alone; what it parses is what the
\* parser makes of the received bytes alone, and what it builds is what the
\* builder makes of that and of the table.
LoopFrame ==
    /\ dns_records_map' = dns_records_map
    /\ pc = "parse" =>
           parsed_dns_query' = parse_dns_query_packet(Delivered(LastDatagram))
    /\ pc = "build" =>
           response_packet_bytes' =
               build_dns_response_packet(parse_dns_query_packet(Delivered(LastDatagram)),
                                         dns_records_map).bytes

\* C21: no step of the server loop changes the record table, and the reply
\* to a datagram depends on its received bytes and the table only: two
\* identical datagrams get identical replies whatever was received in
\* between, longer datagrams that left bytes in the buffer included.
C21_TableFrozenRepliesRepeat ==
    [](udp_socket = "bound" => SameDatagramSameReply)
        /\ [][udp_socket = "bound" => LoopFrame]_vars

\* The cut query for "svc-a" was dropped before and after the whole query
\* was answered from the same buffer.
C21_Witness ==
    /\ udp_socket = "bound"
    /\ Len(log) = 6
    /\ log[1].kind = "recv" /\ Len(log[1].bytes) = 21
    /\ log[2].kind = "drop"
    /\ log[3].kind = "recv" /\ Len(log[3].bytes) = 23
    /\ log[4].kind = "send"
    /\ log[5].kind = "recv" /\ log[5].bytes = log[1].bytes
    /\ log[6].kind = "drop"
    /\ dns_records_map # EmptyMap

\* ------------------------------------------------------------------------
\* C22
\* ------------------------------------------------------------------------

\* The ips of the Uris with an ip and a port, in order.
CompleteIps(uris) ==
    LET complete == SelectSeq(uris, LAMBDA uri : uri.ip.some /\ uri.port.some)
    IN  [i \in 1..Len(complete) |-> complete[i].ip.val]

\* What a resolution yields: for each complete Uri of its last
\* network_client, all its tags and the ip; nothing without a tag or
\* without a network_client.
YieldOf(fields) ==
    LET tag_fields == SelectSeq(fields, LAMBDA f : f.kind = "tag")
        client_fields == SelectSeq(fields, LAMBDA f : f.kind = "client")
        all_tags == [i \in 1..Len(tag_fields) |-> tag_fields[i].tag]
    IN  IF tag_fields = <<>> \/ client_fields = <<>> THEN <<>>
        ELSE LET ips == CompleteIps(client_fields[Len(client_fields)].uris)
             IN  [i \in 1..Len(ips) |-> [tags |-> all_tags, ip |-> ips[i]]]

\* The well-formed files with what their resolutions yield, in order.
ResolutionFiles ==
    {[bytes |-> EncWalkerFile(c),
      yields |-> Flatten([r \in 1..Len(c) |-> YieldOf(c[r])])] : c \in WalkerConfigs}

\* The files with a fault inside a network_client that has no tag beside
\* it, and inside one that another network_client follows.
UntaggedFaults ==
    {file \in FaultyFiles :
        file.context = "untagged" /\ file.level \in {"instance", "uri_slot", "uri"}}

ShadowedFaults ==
    {file \in FaultyFiles :
        file.context = "shadowed" /\ file.level \in {"instance", "uri_slot", "uri"}}

\* The tags and the ip of the extracted records.
ExtractedYields ==
    [i \in 1..Len(extracted_network_info_list) |->
        [tags |-> extracted_network_info_list[i].tags,
         ip |-> extracted_network_info_list[i].ip]]

\* C22: a NetworkResolution yields records after its whole body is read:
\* with a tag and a network_client, from the last network_client only and
\* each with all the tags of the resolution in order, those behind the
\* network_client included; without a tag or without a network_client, no
\* record, and the bytes of the network_client are not looked into.
C22_ResolutionYield ==
    WalkerDone =>
        /\ \A file \in ResolutionFiles :
               file.bytes = config_file.bytes =>
                   pc # "exit" /\ ExtractedYields = file.yields
        /\ \A file \in UntaggedFaults :
               file.bytes = config_file.bytes =>
                   pc # "exit" /\ extracted_network_info_list = <<>>
        /\ \A file \in ShadowedFaults :
               file.bytes = config_file.bytes =>
                   pc # "exit" /\ ExtractedYields = <<[tags |-> <<<<97>>>>, ip |-> StrIp6]>>

\* A network_client followed by the tags "a" and "b" gave two records, each
\* with both tags.
C22_Witness ==
    /\ WalkerDone
    /\ config_file.bytes =
           EncWalkerFile(<<<<ClientField(<<UriBoth, UriIpOnly, UriBoth6>>),
                             TagField(<<97>>), TagField(<<98>>)>>>>)
    /\ Len(extracted_network_info_list) = 2
    /\ \A i \in 1..2 : extracted_network_info_list[i].tags = <<<<97>>, <<98>>>>

\* A network_client with an ip that is no UTF-8 and no tag beside it was
\* passed over, and the server started.
C22_WitnessUntagged ==
    /\ pc = "recv"
    /\ extracted_network_info_list = <<>>
    /\ \E file \in UntaggedFaults : file.bytes = config_file.bytes /\ file.kind = "utf8"

\* Of two network_client fields the first, cut short inside, was passed
\* over and the second gave the record.
C22_WitnessShadowed ==
    /\ WalkerDone
    /\ Len(extracted_network_info_list) = 1
    /\ \E file \in ShadowedFaults : file.bytes = config_file.bytes /\ file.kind = "truncated"

\* ------------------------------------------------------------------------
\* C23
\* ------------------------------------------------------------------------

\* C23: no response carries RCODE 2: an entry of the table renders as
\* "ip:port" in at most 21 bytes, so a TXT answer is never refused for its
\* length, and every response has RCODE 0 or RCODE 3.
C23_NoServerFailure ==
    /\ TableBuilt =>
           \A key \in DOMAIN dns_records_map :
               Len(Rendered(dns_records_map[key])) <= 21
    /\ Answered => RespRcode \in {0, 3}

\* The TXT query for "c" was answered with the 21 bytes
\* "255.255.255.255:16960".
C23_Witness ==
    /\ Answered
    /\ Question.qtype = QTYPE_TXT
    /\ RespRcode = 0
    /\ RespAncount = 1
    /\ RespRdata = <<21>> \o StrIpMax \o <<COLON, 49, 54, 57, 54, 48>>

====
